---- MODULE Spec2Model ----
(***************************************************************************)
(* git-oops: a command-line helper that wraps git with "safe" workflows    *)
(* (undo, fixup, save, split, wrong-branch, yank, pocket, revert-merge).   *)
(*                                                                         *)
(* The model has two layers.                                               *)
(*   - A small model of a git repository (commit objects, branch heads,    *)
(*     remote-tracking refs, tags, hidden pocket refs, index, working      *)
(*     tree, stash) and of the git commands the workflows issue.           *)
(*   - One run of one workflow as a sequence of steps (pc), one step per   *)
(*     mutating git call or prompt, with the calls issued so far kept in   *)
(*     `calls`.                                                            *)
(***************************************************************************)
EXTENDS Integers, Sequences, FiniteSets, TLC

VARIABLES
    repo,       \* the git repository the command runs in
    cmd,        \* the workflow being run
    opts,       \* its command-line options and arguments
    pc,         \* position of the run inside the workflow
    outcome,    \* "running", "ok" (returned normally) or the error class thrown
    calls,      \* state-changing git calls issued by the run, in order
    msgs,       \* kinds of messages the run has logged
    loc,        \* the workflow's local variables
    asked,      \* a confirmation prompt was shown in this run
    now,        \* wall clock, in seconds
    repo0,      \* the repository as the run found it
    envFault    \* some git call failed for a reason outside the modelled repository

vars == <<repo, cmd, opts, pc, outcome, calls, msgs, loc, asked, now, repo0, envFault>>

(***************************************************************************)
(* Bounds of the model.                                                    *)
(***************************************************************************)
MaxCommits == 3
MaxParents == 2
MaxPaths == 3

(***************************************************************************)
(* Paths, contents, trees.  A path is its sequence of characters; a file's *)
(* content is 0 (the file does not exist) or a version number.             *)
(***************************************************************************)
FileA == "src/a.js"
FileB == "n"
FileSrcB == "src/b.js"
FileDocs == "docs/readme.md"
Files == {FileA, FileB, FileSrcB, FileDocs}
\* The path of a file as its characters, and the file at a path.
PathOf(f) ==
    CASE f = FileA -> <<"s", "r", "c", "/", "a", ".", "j", "s">>
      [] f = FileB -> <<"n">>
      [] f = FileSrcB -> <<"s", "r", "c", "/", "b", ".", "j", "s">>
      [] f = FileDocs -> <<"d", "o", "c", "s", "/", "r", "e", "a", "d", "m", "e", ".", "m", "d">>
FileAt(path) == CHOOSE f \in Files : PathOf(f) = path
Contents == {0, 1}
\* A third content of a file (an edit made after a merge), and the state of an index
\* entry that a stopped revert left unmerged.
Edited == 2
Unmerged == 3
\* The trees of the initial repositories hold FileA and FileB only; the other two
\* files appear in the split scenario.
Trees == {t \in [Files -> Contents] : t[FileSrcB] = 0 /\ t[FileDocs] = 0}
EmptyTree == [f \in Files |-> 0]

\* Branch names, as their "/"-separated segments.
BranchMain == <<"main">>
BranchDev == <<"dev">>
\* What git rev-parse --abbrev-ref HEAD prints when no branch is checked out. A
\* repository in that state keeps the commit it is at under this name.
BranchDetached == <<"HEAD">>
BranchFix == <<"fix", "wip">>
\* "fix/", the name built from an empty sanitized subject.
BranchFixNothing == <<"fix", "">>
BranchMaster == <<"master">>
BranchProduction == <<"production">>
BranchProd == <<"prod">>
BranchRelease == <<"release", "x">>
BranchHotfix == <<"hotfix", "x">>
\* Names close to the protected ones: "release" and "prod/x".
BranchReleaseBare == <<"release">>
BranchProdSub == <<"prod", "x">>
Branches ==
    {BranchMain, BranchDev, BranchFix, BranchFixNothing, BranchMaster, BranchProduction,
     BranchProd, BranchRelease, BranchHotfix, BranchReleaseBare, BranchProdSub}
\* git check-ref-format: no empty component, so no name ending in "/".
ValidRefName(name) == name # <<>> /\ \A i \in 1..Len(name) : name[i] # ""

\* Commit subjects, as their characters.  Only wrong-branch reads a subject, and it
\* makes no commit; the commits a run makes carry DefaultSubject.
DefaultSubject == <<"w", "i", "p">>
Subjects == {DefaultSubject, <<"W", "i", "p", "!">>, <<"!">>}

(***************************************************************************)
(* Text arguments.  Numbers arrive as text and go through parseInt(s, 10): *)
(* optional sign, then the longest run of decimal digits; NaN when there   *)
(* is no digit.  A number is [nan, val].                                   *)
(***************************************************************************)
Digits == <<"0", "1", "2", "3", "4", "5", "6", "7", "8", "9">>
IsDigit(c) == \E i \in 1..10 : Digits[i] = c
DigitVal(c) == (CHOOSE i \in 1..10 : Digits[i] = c) - 1
NaN == [nan |-> TRUE, val |-> 0]
Num(v) == [nan |-> FALSE, val |-> v]

RECURSIVE SkipSpaces(_)
SkipSpaces(s) == IF s # <<>> /\ Head(s) = " " THEN SkipSpaces(Tail(s)) ELSE s

RECURSIVE DigitPrefix(_)
DigitPrefix(s) ==
    IF s # <<>> /\ IsDigit(Head(s)) THEN <<Head(s)>> \o DigitPrefix(Tail(s)) ELSE <<>>

RECURSIVE DecimalValue(_)
DecimalValue(d) ==
    IF d = <<>> THEN 0 ELSE 10 * DecimalValue(SubSeq(d, 1, Len(d) - 1)) + DigitVal(d[Len(d)])

ParseInt(s) ==
    LET t == SkipSpaces(s)
        signed == t # <<>> /\ Head(t) \in {"-", "+"}
        u == IF signed THEN Tail(t) ELSE t
        d == DigitPrefix(u)
    IN  IF d = <<>> THEN NaN
        ELSE IF signed /\ Head(t) = "-" THEN Num(0 - DecimalValue(d))
        ELSE Num(DecimalValue(d))

\* options.x || "1": the empty string is falsy.
OrDefault(s, dflt) == IF s = <<>> THEN dflt ELSE s

\* The text is a plain decimal integer (what "a number N" means to the user).
IsPlainInteger(s) ==
    \/ s # <<>> /\ DigitPrefix(s) = s
    \/ Len(s) > 1 /\ Head(s) \in {"-", "+"} /\ DigitPrefix(Tail(s)) = Tail(s)

(***************************************************************************)
(* The repository.                                                         *)
(*   objs    commit objects, a commit's id is its index: [parents, tree]   *)
(*   snaps   stash commits: [base, itree, wtree, utree]                    *)
(*   heads   local branches that exist -> commit id (0: no commit yet)     *)
(*   remote  origin/<branch> -> commit id (0 or no entry: absent)          *)
(*   tags    set of [name, target]                                         *)
(*   pocket  refs/pocket/<branch> -> [kind, id] (no entry when absent)     *)
(*   stash   the stash stack (ids into snaps), newest first                *)
(***************************************************************************)
\* The branch maps hold the refs that exist (and the checked-out branch, born or not).
Tip(r, b) == IF b \in DOMAIN r.heads THEN r.heads[b] ELSE 0
Upstream(r) == IF r.branch \in DOMAIN r.remote THEN r.remote[r.branch] ELSE 0
NoPocket == [kind |-> "none", id |-> 0]
PocketOf(r, b) == IF b \in DOMAIN r.pocket THEN r.pocket[b] ELSE NoPocket
HeadId(r) == Tip(r, r.branch)
TreeOf(r, id) == IF id = 0 THEN EmptyTree ELSE r.objs[id].tree
HeadTree(r) == TreeOf(r, HeadId(r))

RECURSIVE Ancestors(_, _)
Ancestors(r, id) ==
    IF id = 0 THEN {}
    ELSE {id} \cup UNION {Ancestors(r, r.objs[id].parents[k]) : k \in 1..Len(r.objs[id].parents)}

\* rev~n: follow first parents n times; 0 when the chain ends first.
RECURSIVE NthFirstParent(_, _, _)
NthFirstParent(r, id, n) ==
    IF id = 0 THEN 0
    ELSE IF n = 0 THEN id
    ELSE IF r.objs[id].parents = <<>> THEN 0
    ELSE NthFirstParent(r, r.objs[id].parents[1], n - 1)

\* git status --porcelain, parsed as getStatus does: a tracked entry has the
\* two-letter code XY, an untracked one "??".
\* An unmerged entry of a revert that deletes a file edited since shows as "UD".
CodeX(h, i) ==
    IF i = Unmerged THEN "U"
    ELSE IF i = h THEN " " ELSE IF h = 0 THEN "A" ELSE IF i = 0 THEN "D" ELSE "M"
CodeY(i, w) ==
    IF i = Unmerged THEN "D"
    ELSE IF i = 0 \/ w = i THEN " " ELSE IF w = 0 THEN "D" ELSE "M"
PorcelainLines(r) ==
    LET h == HeadTree(r) IN
    {[file |-> f, x |-> CodeX(h[f], r.index[f]), y |-> CodeY(r.index[f], r.wt[f])] :
        f \in {g \in Files : CodeX(h[g], r.index[g]) # " " \/ CodeY(r.index[g], r.wt[g]) # " "}}
    \cup {[file |-> f, x |-> "?", y |-> "?"] : f \in {g \in Files : r.index[g] = 0 /\ r.wt[g] # 0}}

GetStatus(r) ==
    LET lines == PorcelainLines(r) IN
    [staged    |-> {l.file : l \in {m \in lines : m.x # " " /\ m.x # "?"}},
     unstaged  |-> {l.file : l \in {m \in lines : m.y # " "}},
     untracked |-> {l.file : l \in {m \in lines : m.x = "?" /\ m.y = "?"}}]

NoStatus == [staged |-> {}, unstaged |-> {}, untracked |-> {}]

\* git log -<limit> HEAD: the newest `limit` commits reachable from HEAD.
GetCommitsCount(r, limit) ==
    LET n == Cardinality(Ancestors(r, HeadId(r))) IN IF n < limit THEN n ELSE limit

\* git rev-list --count <upstream>..HEAD
CountUnpushed(r) ==
    Cardinality(Ancestors(r, HeadId(r)) \ Ancestors(r, Upstream(r)))

\* getUpstream: <branch>@{u}, else origin/<branch> when it exists, else null.
HasUpstream(r) == Upstream(r) # 0

\* ---- git commands: [ok, repo]; a failing command leaves the repository alone.
Failed(r) == [ok |-> FALSE, repo |-> r]
Done(r) == [ok |-> TRUE, repo |-> r]

\* git tag -a <name> -m ... HEAD
GitTag(r, name) ==
    IF HeadId(r) = 0 \/ (\E t \in r.tags : t.name = name) THEN Failed(r)
    ELSE Done([r EXCEPT !.tags = @ \cup {[name |-> name, target |-> HeadId(r)]}])

\* git reset HEAD~n (mixed): the index is reset to the target as well.
GitResetMixedBack(r, n) ==
    LET t == NthFirstParent(r, HeadId(r), n) IN
    IF t = 0 THEN Failed(r) ELSE Done([r EXCEPT !.heads[r.branch] = t, !.index = TreeOf(r, t)])

\* git reset --soft HEAD~n: only the branch tip moves.
GitResetSoftBack(r, n) ==
    LET t == NthFirstParent(r, HeadId(r), n) IN
    IF t = 0 THEN Failed(r) ELSE Done([r EXCEPT !.heads[r.branch] = t])

\* A file git knows about: in HEAD or in the index.
Tracked(r, f) == HeadTree(r)[f] # 0 \/ r.index[f] # 0

\* Nothing staged and no tracked file modified (untracked files do not count).
NoTrackedChanges(r) ==
    r.index = HeadTree(r) /\ \A f \in Files : r.index[f] # 0 => r.wt[f] = r.index[f]

\* The working-tree side of a stash commit: the index, with every tracked file whose
\* working copy differs from HEAD taken from the working tree.
StashWorkTree(r) ==
    [f \in Files |-> IF Tracked(r, f) /\ r.wt[f] # HeadTree(r)[f] THEN r.wt[f] ELSE r.index[f]]
NoFiles == [f \in Files |-> 0]
UntrackedTree(r) == [f \in Files |-> IF r.index[f] = 0 THEN r.wt[f] ELSE 0]

\* git stash create: [ok, repo, id]; id 0 when there is nothing to stash. The new
\* stash commit holds index and tracked working-tree changes, never untracked files.
GitStashCreate(r) ==
    IF HeadId(r) = 0 THEN [ok |-> FALSE, repo |-> r, id |-> 0]
    ELSE IF NoTrackedChanges(r) THEN [ok |-> TRUE, repo |-> r, id |-> 0]
    ELSE [ok |-> TRUE,
          repo |-> [r EXCEPT !.snaps = Append(@, [base |-> HeadId(r), itree |-> r.index,
                                                   wtree |-> StashWorkTree(r), utree |-> NoFiles])],
          id |-> Len(r.snaps) + 1]

\* git update-ref refs/pocket/<branch> <sha>
GitUpdatePocketRefAlone(r, b, sha) == Done([r EXCEPT !.pocket = (b :> sha)])
GitUpdatePocketRef(r, b, sha) == Done([r EXCEPT !.pocket = (b :> sha) @@ @])

\* git reset --hard <commit>: branch tip, index and every tracked file follow the commit;
\* untracked files stay.
GitResetHard(r, id) ==
    IF HeadId(r) = 0 \/ id = 0 THEN Failed(r)
    ELSE LET t == TreeOf(r, id) IN
         Done([r EXCEPT !.heads[r.branch] = id,
                        !.index = t,
                        !.wt = [f \in Files |-> IF Tracked(r, f) \/ t[f] # 0 THEN t[f] ELSE @[f]]])

\* git clean -fd: untracked files are deleted.
GitClean(r) == Done([r EXCEPT !.wt = [f \in Files |-> IF r.index[f] = 0 THEN 0 ELSE @[f]]])

\* git add -u: tracked files only, untracked files stay out of the index.
GitAddTracked(r) ==
    Done([r EXCEPT !.index = [f \in Files |-> IF @[f] = 0 /\ HeadTree(r)[f] = 0 THEN 0
                                             ELSE r.wt[f]]])
\* git add -A: the index becomes the working tree.
GitAddAll(r) == Done([r EXCEPT !.index = r.wt])

\* git add <files>: fails on a path that is neither in the working tree nor tracked.
GitAdd(r, files) ==
    IF \E f \in files : r.wt[f] = 0 /\ r.index[f] = 0 THEN Failed(r)
    ELSE Done([r EXCEPT !.index = [f \in Files |-> IF f \in files THEN r.wt[f] ELSE @[f]]])

\* git reset HEAD (mixed): the index goes back to HEAD; needs a commit.
GitUnstageAll(r) ==
    IF HeadId(r) = 0 THEN Failed(r) ELSE Done([r EXCEPT !.index = HeadTree(r)])

\* git commit -m: refuses when nothing is staged.
GitCommit(r) ==
    IF r.index = HeadTree(r) THEN Failed(r)
    ELSE Done([r EXCEPT !.objs = Append(@, [parents |-> IF HeadId(r) = 0 THEN <<>> ELSE <<HeadId(r)>>,
                                            tree |-> r.index, subject |-> DefaultSubject]),
                        !.heads[r.branch] = Len(r.objs) + 1])

\* git commit --amend: a new commit with the old tip's parents and the index as tree;
\* refuses to leave an empty commit.
GitAmend(r) ==
    IF HeadId(r) = 0 THEN Failed(r)
    ELSE LET ps == r.objs[HeadId(r)].parents
             base == IF ps = <<>> THEN EmptyTree ELSE TreeOf(r, ps[1])
         IN  IF Len(ps) <= 1 /\ r.index = base THEN Failed(r)
             ELSE Done([r EXCEPT !.objs = Append(@, [parents |-> ps, tree |-> r.index,
                                                             subject |-> r.objs[HeadId(r)].subject]),
                                 !.heads[r.branch] = Len(r.objs) + 1])

\* Local changes: per file, staged or unstaged differences, or an untracked copy.
LocallyChanged(r, f) == r.index[f] # HeadTree(r)[f] \/ r.wt[f] # r.index[f]

\* Switching the checked-out tree from `from` to `to`: refused when a file that
\* differs between the two has local changes; other local changes are carried over.
SwitchBlocked(r, to) == \E f \in Files : HeadTree(r)[f] # to[f] /\ LocallyChanged(r, f)
SwitchedIndex(r, to) == [f \in Files |-> IF HeadTree(r)[f] # to[f] THEN to[f] ELSE r.index[f]]
SwitchedWt(r, to) == [f \in Files |-> IF HeadTree(r)[f] # to[f] THEN to[f] ELSE r.wt[f]]

\* git checkout -b <name>: a new branch at HEAD, checked out.
GitCreateBranch(r, name) ==
    IF HeadId(r) = 0 \/ ~ValidRefName(name) \/ Tip(r, name) # 0 THEN Failed(r)
    ELSE Done([r EXCEPT !.heads = (name :> HeadId(r)) @@ @, !.branch = name])

\* git checkout <name>
GitSwitch(r, name) ==
    IF name = BranchDetached THEN Done(r)  \* git checkout HEAD changes nothing
    ELSE IF Tip(r, name) = 0 \/ SwitchBlocked(r, TreeOf(r, Tip(r, name))) THEN Failed(r)
    ELSE Done([r EXCEPT !.branch = name,
                        !.index = SwitchedIndex(r, TreeOf(r, Tip(r, name))),
                        !.wt = SwitchedWt(r, TreeOf(r, Tip(r, name)))])

\* Nothing to stash with -u: no tracked change and no untracked file.
CleanTree(r) == NoTrackedChanges(r) /\ \A f \in Files : r.index[f] = 0 => r.wt[f] = 0

\* git stash push -u: [ok, repo, saved]; saved is FALSE for "No local changes to save".
GitStashPush(r) ==
    IF HeadId(r) = 0 THEN [ok |-> FALSE, repo |-> r, saved |-> FALSE]
    ELSE IF CleanTree(r) THEN [ok |-> TRUE, repo |-> r, saved |-> FALSE]
    ELSE [ok |-> TRUE, saved |-> TRUE,
          repo |-> [r EXCEPT !.snaps = Append(@, [base |-> HeadId(r), itree |-> r.index,
                                                   wtree |-> StashWorkTree(r),
                                                   utree |-> UntrackedTree(r)]),
                             !.stash = <<Len(r.snaps) + 1>> \o @,
                             !.index = HeadTree(r),
                             !.wt = HeadTree(r)]]

\* git stash pop: re-apply the newest stash entry and drop it. Refused (entry kept)
\* when an untracked file of the entry already exists or a stashed change meets a
\* different change of the same file.
\* git stash pop of the entry at position k of the stash list.
StashPopAt(r, k) ==
    IF r.stash = <<>> THEN Failed(r)
    ELSE LET e == r.snaps[r.stash[k]]
             b == TreeOf(r, e.base)
             h == HeadTree(r)
             changed == {f \in Files : e.wtree[f] # b[f]}
         IN  IF \/ \E f \in Files : e.utree[f] # 0 /\ r.wt[f] # 0
                \/ \E f \in changed : h[f] # b[f] /\ h[f] # e.wtree[f]
                \/ \E f \in changed : r.wt[f] # h[f]
             THEN Failed(r)
             ELSE Done([r EXCEPT !.stash = SubSeq(@, 1, k - 1) \o SubSeq(@, k + 1, Len(@)),
                                 !.wt = [f \in Files |-> IF f \in changed THEN e.wtree[f]
                                                         ELSE IF e.utree[f] # 0 THEN e.utree[f]
                                                         ELSE @[f]],
                                 !.index = [f \in Files |-> IF f \in changed /\ b[f] = 0 /\ e.itree[f] # 0
                                                            THEN e.wtree[f] ELSE @[f]]])
\* The pop taking the oldest entry of the list instead of the newest.
GitStashPopOldest(r) == StashPopAt(r, Len(r.stash))
\* git stash pop: the newest entry, stash@{0}.
GitStashPop(r) == StashPopAt(r, 1)

\* git pull [--rebase]: needs tracking information; fast-forwards to the remote tip
\* when HEAD is behind it, does nothing when HEAD contains it. A rebase is refused on
\* a tree with tracked changes; diverged histories are left to the user (failure).
GitPull(r, rebase) ==
    LET up == Upstream(r) IN
    IF up = 0 \/ HeadId(r) = 0 THEN Failed(r)
    ELSE IF rebase /\ ~NoTrackedChanges(r) THEN Failed(r)
    ELSE IF up \in Ancestors(r, HeadId(r)) THEN Done(r)
    ELSE IF HeadId(r) \notin Ancestors(r, up) \/ SwitchBlocked(r, TreeOf(r, up)) THEN Failed(r)
    ELSE Done([r EXCEPT !.heads[r.branch] = up,
                        !.index = SwitchedIndex(r, TreeOf(r, up)),
                        !.wt = SwitchedWt(r, TreeOf(r, up))])

(***************************************************************************)
(* Paths and names: ordering, grouping, protected branches.                *)
(***************************************************************************)
\* The characters of the modelled paths in UTF-16 code unit order (Array.sort) and
\* in collation order (localeCompare).
CodeUnitOrder ==
    <<".", "/", "\\", "_", "a", "b", "c", "d", "e", "j", "m", "n", "o", "r", "s", "t">>
\* The comparison with its operands exchanged, b.localeCompare(a).
LocaleOrderDescending ==
    <<"t", "s", "r", "o", "n", "m", "j", "e", "d", "c", "b", "a", "\\", "/", ".", "_">>
LocaleOrder ==
    <<"_", ".", "/", "\\", "a", "b", "c", "d", "e", "j", "m", "n", "o", "r", "s", "t">>
Rank(order, c) == CHOOSE i \in 1..Len(order) : order[i] = c

RECURSIVE Before(_, _, _)
Before(order, x, y) ==
    IF x = <<>> THEN y # <<>>
    ELSE IF y = <<>> THEN FALSE
    ELSE IF Head(x) # Head(y) THEN Rank(order, Head(x)) < Rank(order, Head(y))
    ELSE Before(order, Tail(x), Tail(y))

RECURSIVE Sorted(_, _)
Sorted(order, S) ==
    IF S = {} THEN <<>>
    ELSE LET m == CHOOSE x \in S : \A y \in S \ {x} : Before(order, x, y)
         IN  <<m>> \o Sorted(order, S \ {m})

RootGroup == <<"_", "r", "o", "o", "t", "_">>
Normalized(path) == [i \in 1..Len(path) |-> IF path[i] = "\\" THEN "/" ELSE path[i]]
FirstPart(path) ==
    LET cut == {i \in 1..Len(path) : path[i] = "/"} IN
    IF cut = {} THEN path
    ELSE SubSeq(path, 1, (CHOOSE i \in cut : \A j \in cut : i <= j) - 1)
getTopLevelDirectoryFirstPart(filePath) == FirstPart(Normalized(filePath))
getTopLevelDirectory(filePath) ==
    LET n == Normalized(filePath) IN
    IF (\A i \in 1..Len(n) : n[i] # "/") \/ FirstPart(n) = <<>> THEN RootGroup
    ELSE FirstPart(n)

\* Array.prototype.sort without comparator, on a list: by code units, stable.
RECURSIVE Inserted(_, _, _)
Inserted(order, q, x) ==
    IF q = <<>> THEN <<x>>
    ELSE IF Before(order, x, Head(q)) THEN <<x>> \o q
    ELSE <<Head(q)>> \o Inserted(order, Tail(q), x)
RECURSIVE SortedList(_, _)
SortedList(order, q) ==
    IF q = <<>> THEN <<>>
    ELSE Inserted(order, SortedList(order, SubSeq(q, 1, Len(q) - 1)), q[Len(q)])

\* The input is a list of paths (it may repeat a path).
\* The grouping without the sort of each group's files: they stay in input order.
groupFilesByDirectoryInGivenOrder(files) ==
    LET dirs == {getTopLevelDirectory(files[i]) : i \in 1..Len(files)}
        sortedDirs == Sorted(LocaleOrder, dirs \ {RootGroup})
                      \o (IF RootGroup \in dirs THEN <<RootGroup>> ELSE <<>>)
    IN  [k \in 1..Len(sortedDirs) |->
            [directory |-> sortedDirs[k],
             files |-> SelectSeq(files, LAMBDA f : getTopLevelDirectory(f) = sortedDirs[k])]]
groupFilesByDirectory(files) ==
    LET dirs == {getTopLevelDirectory(files[i]) : i \in 1..Len(files)}
        sortedDirs == Sorted(LocaleOrder, dirs \ {RootGroup})
                      \o (IF RootGroup \in dirs THEN <<RootGroup>> ELSE <<>>)
    IN  [k \in 1..Len(sortedDirs) |->
            [directory |-> sortedDirs[k],
             files |-> SortedList(CodeUnitOrder,
                                  SelectSeq(files, LAMBDA f : getTopLevelDirectory(f) = sortedDirs[k]))]]

SeqToSet(q) == {q[i] : i \in 1..Len(q)}

\* split.ts 242-249: sanitizeBranchName, on the characters of the input.
BranchNameMaxLen == 50
NameChars ==
    {"a", "b", "c", "d", "e", "f", "g", "h", "i", "j", "k", "l", "m", "n", "o", "p", "q", "r",
     "s", "t", "u", "v", "w", "x", "y", "z", "0", "1", "2", "3", "4", "5", "6", "7", "8", "9",
     "-"}
ToLowerCase(c) == CASE c = "W" -> "w" [] OTHER -> c
RECURSIVE TrimLeadingDashes(_)
TrimLeadingDashes(q) ==
    IF q # <<>> /\ Head(q) = "-" THEN TrimLeadingDashes(Tail(q)) ELSE q
RECURSIVE TrimTrailingDashes(_)
TrimTrailingDashes(q) ==
    IF q # <<>> /\ q[Len(q)] = "-" THEN TrimTrailingDashes(SubSeq(q, 1, Len(q) - 1)) ELSE q
RECURSIVE CollapseDashes(_)
CollapseDashes(q) ==
    IF Len(q) < 2 THEN q
    ELSE IF q[1] = "-" /\ q[2] = "-" THEN CollapseDashes(Tail(q))
    ELSE <<q[1]>> \o CollapseDashes(Tail(q))
sanitizeBranchName(input) ==
    LET lowered == [i \in 1..Len(input) |-> ToLowerCase(input[i])]
        replaced == [i \in 1..Len(input) |-> IF lowered[i] \in NameChars THEN lowered[i] ELSE "-"]
        trimmed == TrimTrailingDashes(TrimLeadingDashes(replaced))
        collapsed == CollapseDashes(trimmed)
    IN  SubSeq(collapsed, 1, IF Len(collapsed) < BranchNameMaxLen THEN Len(collapsed)
                             ELSE BranchNameMaxLen)
\* The text spelled by a sequence of characters.
Spelled(q) == CASE q = <<>> -> "" [] q = <<"w", "i", "p">> -> "wip"

\* isProtectedBranch, on a branch name given by its "/"-separated segments.
\* The exact names only, without the release/ and hotfix/ patterns.
isProtectedBranchExactOnly(b) ==
    b \in {<<"main">>, <<"master">>, <<"production">>, <<"prod">>}
isProtectedBranch(b) ==
    \/ b \in {<<"main">>, <<"master">>, <<"production">>, <<"prod">>}
    \/ /\ Len(b) >= 2 /\ b[1] \in {"release", "hotfix"}
       /\ (Len(b) > 2 \/ b[2] # "")

(***************************************************************************)
(* Safety tag names: oops/<op>-<qualifier>-<timestamp>[-<suffix>].         *)
(* Math.random().toString(36).substring(2, 8) yields at most 6 characters. *)
(***************************************************************************)
\* substring(2, 8): the most characters a suffix has.
TagSuffixLen == 6
SuffixShort == <<"i">>
SuffixLong == <<"k", "3", "f", "9", "z", "q">>
Suffixes == {SuffixShort, SuffixLong}
\* qual is the commit count (undo) or the commit named by the first qlen characters
\* of the sha argument (revert-merge).
NoTag ==
    [op |-> "none", qual |-> 0, qlen |-> 0, ts |-> 0, suffix |-> <<>>, suffixed |-> FALSE]
UndoTagName(commitCount, ts, suffix) ==
    [op |-> "undo", qual |-> commitCount, qlen |-> 0, ts |-> ts,
     suffix |-> suffix, suffixed |-> TRUE]

(***************************************************************************)
(* A run: options, locals, bookkeeping.                                    *)
(***************************************************************************)
NoSha == [hex |-> FALSE, len |-> 0, id |-> 0]
Opts0 ==
    [yes |-> FALSE, dryRun |-> FALSE, commits |-> <<"1">>, mainline |-> <<"1">>,
     sha |-> NoSha, message |-> FALSE, push |-> "absent", newBranch |-> <<>>,
     paths |-> <<>>]
Loc0 ==
    [commitCount |-> 0, available |-> 0, hasUnpushed |-> FALSE, tagName |-> NoTag,
     status |-> NoStatus, parents |-> <<>>, mainline |-> 0, conflicted |-> {},
     pocketSha |-> [kind |-> "none", id |-> 0], isPushed |-> FALSE, totalChanges |-> 0,
     groups |-> <<>>, gi |-> 0, committed |-> 0, current |-> <<>>, target |-> <<>>,
     base |-> 0, unique |-> 0, stashed |-> FALSE, announced |-> <<>>,
     inFlight |-> {}]

Call(op, arg, ok) == [op |-> op, arg |-> arg, ok |-> ok]

\* The run ends: normally ("ok") or by throwing. Every workflow's catch block
\* logs "<Workflow> operation failed" and rethrows.
Finish(o, said) ==
    /\ pc' = "done"
    /\ outcome' = o
    /\ msgs' = msgs \cup said \cup (IF o = "ok" THEN {} ELSE {"operation failed"})

\* handleError of cli.ts: the process exit code of a finished run. A GitOopsError
\* carries its code (ValidationError 1, ExternalToolError 2); anything else exits 1.
handleError(o) ==
    CASE o = "ok" -> 0
      [] o = "ValidationError" -> 1
      [] o = "ExternalToolError" -> 2
      [] OTHER -> 1

\* A git call either runs on the repository or fails for an outside reason
\* (lock file, permissions, missing identity, ...), leaving the repository alone.
Faults == {FALSE, TRUE}
Exec(result, fault) == IF fault THEN Failed(repo) ELSE result

\* An action announced by a preview ("would perform these actions").
Step(op, arg) == [op |-> op, arg |-> arg]
\* What a run keeps of its plan: the announcements of a preview, nothing otherwise.
Announce(o, plan) == IF o.dryRun THEN plan ELSE <<>>

\* A state-changing git call made by a step: it is recorded, its effect applied, and
\* the run moves on to `next`, or throws when the call failed.
Issue(op, arg, res, next) ==
    /\ calls' = Append(calls, Call(op, arg, res.ok))
    /\ repo' = res.repo
    /\ IF res.ok THEN pc' = next /\ UNCHANGED <<outcome, msgs>>
       ELSE Finish("ExternalToolError", {})

\* The last state-changing call of a workflow: its success ends the run normally.
IssueLast(op, arg, res, said) ==
    /\ calls' = Append(calls, Call(op, arg, res.ok))
    /\ repo' = res.repo
    /\ IF res.ok THEN Finish("ok", said) ELSE Finish("ExternalToolError", {})

\* confirm() of the shared utilities: the prompt is shown and answered.
Confirm(next) ==
    /\ asked' = TRUE
    /\ \E answer \in BOOLEAN :
         IF answer THEN pc' = next /\ UNCHANGED <<outcome, msgs>>
         ELSE Finish("ok", {"cancelled"})

(***************************************************************************)
(* undo                                                                    *)
(***************************************************************************)
MaxUndo == 10

\* The validation of -n: the parsed count, and whether it is rejected.
UndoCount(o) == ParseInt(OrDefault(o.commits, <<"1">>))
UndoRejects(n) == n.nan \/ n.val < 1 \/ n.val > MaxUndo

\* undo.ts 22-34
UndoStart ==
    /\ pc = "start" /\ cmd = "undo"
    /\ LET n == UndoCount(opts) IN
       IF UndoRejects(n)
       THEN /\ Finish("ValidationError", {})
            /\ UNCHANGED loc
       ELSE /\ pc' = "undo_inspect"
            /\ loc' = [loc EXCEPT !.commitCount = n.val]
            /\ UNCHANGED <<outcome, msgs>>
    /\ UNCHANGED <<repo, cmd, opts, calls, asked, now, repo0, envFault>>

\* hasUnpushedCommits of undo.ts 62-74
UndoHasUnpushed(r, commitCount) == HasUpstream(r) /\ CountUnpushed(r) >= commitCount

\* undo.ts 76-84: the git writes the preview lists (its third line, the status
\* display, writes nothing).
UndoAnnounced(commitCount) == <<Step("tag", 0), Step("reset --soft", commitCount)>>

\* undo.ts 36-84: read the commits, classify, preview.
UndoInspect ==
    /\ pc = "undo_inspect"
    /\ \E fault \in Faults :
         /\ envFault' = (envFault \/ fault)
         /\ IF fault \/ HeadId(repo) = 0
            THEN \* git log fails (also on a repository without commits)
                 /\ Finish("ExternalToolError", {})
                 /\ UNCHANGED loc
            ELSE LET got == GetCommitsCount(repo, loc.commitCount)
                     unp == UndoHasUnpushed(repo, loc.commitCount)
                     said == (IF got < loc.commitCount THEN {"only some commits available"} ELSE {})
                             \cup (IF HasUpstream(repo) /\ ~unp THEN {"may be pushed"} ELSE {})
                 IN  /\ loc' = [loc EXCEPT !.available = got, !.hasUnpushed = unp,
                                           !.announced = IF got = 0 THEN <<>>
                                                         ELSE Announce(opts, UndoAnnounced(loc.commitCount))]
                     /\ IF got = 0 THEN Finish("ValidationError", said)
                        ELSE IF opts.dryRun THEN Finish("ok", said \cup {"dry run"})
                        ELSE /\ pc' = IF opts.yes THEN "undo_tag" ELSE "undo_confirm"
                             /\ msgs' = msgs \cup said
                             /\ UNCHANGED outcome
    /\ UNCHANGED <<repo, cmd, opts, calls, asked, now, repo0>>

\* undo.ts 86-104: the confirmation prompt.
UndoPrompt(l) == IF l.hasUnpushed THEN "prompt: undo, changes preserved" ELSE "prompt: some commits may be pushed"
UndoConfirm ==
    /\ pc = "undo_confirm"
    /\ asked' = TRUE
    /\ \E answer \in BOOLEAN :
         IF answer
         THEN pc' = "undo_tag" /\ msgs' = msgs \cup {UndoPrompt(loc)} /\ UNCHANGED outcome
         ELSE Finish("ok", {UndoPrompt(loc), "cancelled"})
    /\ UNCHANGED <<repo, cmd, opts, calls, loc, now, repo0, envFault>>

\* Where undo goes after the tag call: a failed call throws out of the workflow.
UndoAfterTagIgnoringFailure(ok) == "undo_reset"
UndoAfterTag(ok) == IF ok THEN "undo_reset" ELSE "done"

\* undo.ts 107-125: the safety tag.
UndoTag ==
    /\ pc = "undo_tag"
    /\ \E suffix \in Suffixes, fault \in Faults :
         LET name == UndoTagName(loc.commitCount, now, suffix)
             res == Exec(GitTag(repo, name), fault)
         IN  /\ envFault' = (envFault \/ fault)
             /\ calls' = Append(calls, Call("tag", 0, res.ok))
             /\ repo' = res.repo
             /\ IF UndoAfterTag(res.ok) # "done"
                THEN /\ pc' = UndoAfterTag(res.ok)
                     /\ loc' = [loc EXCEPT !.tagName = name]
                     /\ msgs' = msgs \cup {"created safety tag"}
                     /\ UNCHANGED outcome
                ELSE Finish("ExternalToolError", {}) /\ UNCHANGED loc
    /\ UNCHANGED <<cmd, opts, asked, now, repo0>>

\* The revision undo resets to: HEAD~<commitCount>.
UndoResetDistance(l) == l.commitCount

\* undo.ts 127-129: the soft reset.
UndoReset ==
    /\ pc = "undo_reset"
    /\ \E fault \in Faults :
         LET res == Exec(GitResetSoftBack(repo, UndoResetDistance(loc)), fault) IN
         /\ envFault' = (envFault \/ fault)
         /\ calls' = Append(calls, Call("reset --soft", UndoResetDistance(loc), res.ok))
         /\ repo' = res.repo
         /\ IF res.ok
            THEN pc' = "undo_report" /\ UNCHANGED <<outcome, msgs>>
            ELSE Finish("ExternalToolError", {})
    /\ UNCHANGED <<cmd, opts, loc, asked, now, repo0>>

\* undo.ts 131-165: the post-undo status and the summary.
UndoReport ==
    /\ pc = "undo_report"
    /\ \E fault \in Faults :
         /\ envFault' = (envFault \/ fault)
         /\ IF fault
            THEN Finish("ExternalToolError", {}) /\ UNCHANGED loc
            ELSE /\ loc' = [loc EXCEPT !.status = GetStatus(repo)]
                 /\ Finish("ok", {"success"} \cup (IF loc.hasUnpushed THEN {} ELSE {"force-push note"}))
    /\ UNCHANGED <<repo, cmd, opts, calls, asked, now, repo0>>

UndoNext == UndoStart \/ UndoInspect \/ UndoConfirm \/ UndoTag \/ UndoReset \/ UndoReport

(***************************************************************************)
(* revert-merge                                                            *)
(***************************************************************************)
\* The sha argument: whether all its characters are hex digits, its length, and
\* the commit it names (an id outside the object store: no such commit).
ShaMinLen == 7
ShaMaxLen == 40
ShaShownLen == 8
IsValidSha(a) == a.hex /\ a.len >= ShaMinLen /\ a.len <= ShaMaxLen
ShaExists(r, a) == a.id >= 1 /\ a.id <= Len(r.objs)

RevertTagName(a, ts) ==
    [op |-> "revert-merge", qual |-> a.id,
     qlen |-> IF a.len < ShaShownLen THEN a.len ELSE ShaShownLen,
     ts |-> ts, suffix |-> <<>>, suffixed |-> FALSE]

\* The mainline option as parsed, and whether it is rejected for `n` parents.
RevertMainline(o) == ParseInt(OrDefault(o.mainline, <<"1">>))
RevertRejectsMainline(m, n) == m.nan \/ m.val < 1 \/ m.val > n
RevertRejectsOnlyParentless(n) == n < 1
RevertRejectsParents(n) == n < 2

\* git revert -m <k> <sha>: undo on top of HEAD what the commit changed relative to
\* its k-th parent. Refused when there are staged changes, when a file it must
\* rewrite has local changes, or when nothing is left to revert.
RevertTree(r, id, k) ==
    LET m == r.objs[id].tree
        p == r.objs[r.objs[id].parents[k]].tree
        h == HeadTree(r)
    IN  [f \in Files |-> IF m[f] # p[f] /\ h[f] = m[f] THEN p[f] ELSE h[f]]
\* The files the revert cannot merge: changed by the reverted commit and changed
\* again, to something else than the mainline parent has, since.
RevertConflicts(r, id, k) ==
    LET m == r.objs[id].tree
        p == r.objs[r.objs[id].parents[k]].tree
        h == HeadTree(r)
    IN  {f \in Files : m[f] # p[f] /\ h[f] # m[f] /\ h[f] # p[f]}
GitRevert(r, id, k) ==
    IF HeadId(r) = 0 \/ id < 1 \/ id > Len(r.objs) THEN Failed(r)
    ELSE IF k < 1 \/ k > Len(r.objs[id].parents) THEN Failed(r)
    ELSE LET t == RevertTree(r, id, k)
             h == HeadTree(r)
             rewritten == {f \in Files : t[f] # h[f]}
             unmerged == RevertConflicts(r, id, k)
         IN  IF r.index # h \/ (\E f \in rewritten \cup unmerged : r.wt[f] # h[f])
             THEN Failed(r)
             ELSE IF unmerged # {}
             THEN \* the revert stops: what merged is staged, the rest is left unmerged
                  Failed([r EXCEPT !.index = [f \in Files |-> IF f \in unmerged THEN Unmerged ELSE t[f]],
                                   !.wt = [f \in Files |-> IF f \in rewritten THEN t[f] ELSE @[f]]])
             ELSE IF rewritten = {} THEN Failed(r)
             ELSE Done([r EXCEPT !.objs = Append(@, [parents |-> <<HeadId(r)>>, tree |-> t,
                                                             subject |-> DefaultSubject]),
                                 !.heads[r.branch] = Len(r.objs) + 1,
                                 !.index = t,
                                 !.wt = [f \in Files |-> IF f \in rewritten THEN t[f] ELSE @[f]]])

\* git.ts 241-298: validate the sha, the parents and the mainline; preview.
\* git.ts 278-284: the git writes the preview lists (its third line, conflict
\* handling, is no call of its own).
RevertAnnounced(mainline) == <<Step("tag", 0), Step("revert", mainline)>>

RevertStart ==
    /\ pc = "start" /\ cmd = "revert-merge"
    /\ \E fault \in Faults :
         /\ envFault' = (envFault \/ fault)
         /\ IF ~IsValidSha(opts.sha) THEN Finish("ValidationError", {}) /\ UNCHANGED loc
            ELSE IF fault \/ ~ShaExists(repo, opts.sha)
            THEN \* rev-list failed: rethrown as "Commit ... not found"
                 Finish("ValidationError", {}) /\ UNCHANGED loc
            ELSE LET parents == repo.objs[opts.sha.id].parents
                     m == RevertMainline(opts)
                 IN  IF RevertRejectsParents(Len(parents))
                     THEN Finish("ValidationError", {"not a merge commit"}) /\ UNCHANGED loc
                     ELSE IF RevertRejectsMainline(m, Len(parents))
                     THEN Finish("ValidationError", {"invalid mainline"}) /\ UNCHANGED loc
                     ELSE /\ loc' = [loc EXCEPT !.parents = parents, !.mainline = m.val,
                                                !.announced = Announce(opts, RevertAnnounced(m.val))]
                          /\ IF opts.dryRun THEN Finish("ok", {"dry run"})
                             ELSE /\ pc' = IF opts.yes THEN "revert_tag" ELSE "revert_confirm"
                                  /\ UNCHANGED <<outcome, msgs>>
    /\ UNCHANGED <<repo, cmd, opts, calls, asked, now, repo0>>

\* git.ts 286-298
RevertConfirm ==
    /\ pc = "revert_confirm"
    /\ asked' = TRUE
    /\ \E answer \in BOOLEAN :
         IF answer
         THEN pc' = "revert_tag" /\ UNCHANGED <<outcome, msgs>>
         ELSE Finish("ok", {"cancelled"})
    /\ UNCHANGED <<repo, cmd, opts, calls, loc, now, repo0, envFault>>

\* Where revert-merge goes after the tag call.
RevertAfterTag(ok) == IF ok THEN "revert_revert" ELSE "done"

\* git.ts 300-306: the safety tag.
RevertTag ==
    /\ pc = "revert_tag"
    /\ \E fault \in Faults :
         LET name == RevertTagName(opts.sha, now)
             res == Exec(GitTag(repo, name), fault)
         IN  /\ envFault' = (envFault \/ fault)
             /\ calls' = Append(calls, Call("tag", 0, res.ok))
             /\ repo' = res.repo
             /\ IF RevertAfterTag(res.ok) # "done"
                THEN /\ pc' = RevertAfterTag(res.ok)
                     /\ loc' = [loc EXCEPT !.tagName = name]
                     /\ msgs' = msgs \cup {"created safety tag"}
                     /\ UNCHANGED outcome
                ELSE Finish("ExternalToolError", {}) /\ UNCHANGED loc
    /\ UNCHANGED <<cmd, opts, asked, now, repo0>>

\* The mainline number handed to git revert -m.
RevertMainlineArg(l) == l.mainline

\* Files reported as conflicted: staged paths whose *name* contains a conflict marker.
HasConflictMarker(f) == \E i \in DOMAIN PathOf(f) : PathOf(f)[i] \in {"<", ">"}
ConflictedFiles(st) == {f \in st.staged : HasConflictMarker(f)}

\* git.ts 308-359: the revert, and the report when it fails.
RevertRevert ==
    /\ pc = "revert_revert"
    /\ \E fault \in Faults :
         LET res == Exec(GitRevert(repo, opts.sha.id, RevertMainlineArg(loc)), fault) IN
         /\ envFault' = (envFault \/ fault)
         /\ calls' = Append(calls, Call("revert", RevertMainlineArg(loc), res.ok))
         /\ repo' = res.repo
         /\ IF res.ok
            THEN Finish("ok", {"success"}) /\ UNCHANGED loc
            ELSE LET conflicted == ConflictedFiles(GetStatus(res.repo)) IN
                 /\ loc' = [loc EXCEPT !.conflicted = conflicted]
                 /\ Finish("ExternalToolError",
                           {"revert failed", "safety tag named"}
                           \cup (IF conflicted # {} THEN {"conflicts reported"} ELSE {}))
    /\ UNCHANGED <<cmd, opts, asked, now, repo0>>

RevertNext == RevertStart \/ RevertConfirm \/ RevertTag \/ RevertRevert

(***************************************************************************)
(* fixup                                                                   *)
(***************************************************************************)
\* fixup.ts 93: the preview exit.
FixupPreviewsNever(o) == FALSE
FixupPreviews(o) == o.dryRun
\* The check of fixup.ts 26 left out.
FixupHasChangesAlways(st) == TRUE
FixupHasChanges(st) == st.staged # {} \/ st.unstaged # {}
FixupFirstStep(st) == IF st.unstaged # {} THEN "fixup_stage" ELSE "fixup_amend"
\* fixup.ts 93-104: the preview's list.
FixupAnnounced(st) ==
    (IF st.unstaged # {} THEN <<Step("add -A", 0)>> ELSE <<>>) \o <<Step("commit --amend", 0)>>

\* fixup.ts 22-104: status, last commit, pushed check, preview.
FixupStart ==
    /\ pc = "start" /\ cmd = "fixup"
    /\ \E fault \in Faults :
         LET st == GetStatus(repo)
             pushed == HasUpstream(repo) /\ CountUnpushed(repo) = 0
             said == IF pushed THEN {"appears pushed"} ELSE {}
         IN  /\ envFault' = (envFault \/ fault)
             /\ IF fault THEN Finish("ExternalToolError", {}) /\ UNCHANGED loc
                ELSE IF ~FixupHasChanges(st) /\ ~opts.message
                THEN Finish("ok", {"nothing to do"}) /\ loc' = [loc EXCEPT !.status = st]
                ELSE IF HeadId(repo) = 0
                THEN \* git log on a repository without commits
                     Finish("ExternalToolError", {}) /\ loc' = [loc EXCEPT !.status = st]
                ELSE /\ loc' = [loc EXCEPT !.status = st, !.isPushed = pushed,
                                           !.announced = Announce(opts, FixupAnnounced(st))]
                     /\ IF FixupPreviews(opts) THEN Finish("ok", said \cup {"dry run"})
                        ELSE /\ pc' = IF opts.yes THEN FixupFirstStep(st) ELSE "fixup_confirm"
                             /\ msgs' = msgs \cup said
                             /\ UNCHANGED outcome
    /\ UNCHANGED <<repo, cmd, opts, calls, asked, now, repo0>>

\* fixup.ts 107-118
FixupPrompt(l) == IF l.isPushed THEN "prompt: commit is pushed" ELSE "prompt: fixup the last commit"
FixupConfirm ==
    /\ pc = "fixup_confirm"
    /\ asked' = TRUE
    /\ \E answer \in BOOLEAN :
         IF answer
         THEN pc' = FixupFirstStep(loc.status) /\ msgs' = msgs \cup {FixupPrompt(loc)} /\ UNCHANGED outcome
         ELSE Finish("ok", {FixupPrompt(loc), "cancelled"})
    /\ UNCHANGED <<repo, cmd, opts, calls, loc, now, repo0, envFault>>

\* fixup.ts 121-124: git add -A
FixupStage ==
    /\ pc = "fixup_stage"
    /\ \E fault \in Faults :
         /\ envFault' = (envFault \/ fault)
         /\ Issue("add -A", 0, Exec(GitAddAll(repo), fault), "fixup_amend")
    /\ UNCHANGED <<cmd, opts, loc, asked, now, repo0>>

\* fixup.ts 149-155: the next step the summary names.
FixupPushAdvice(l) == IF l.isPushed THEN "force-push required" ELSE "push when ready"

\* fixup.ts 127-156: git commit --amend, then the summary.
FixupAmend ==
    /\ pc = "fixup_amend"
    /\ \E fault \in Faults :
         /\ envFault' = (envFault \/ fault)
         /\ IssueLast("commit --amend", 0, Exec(GitAmend(repo), fault),
                      {"success", FixupPushAdvice(loc)})
    /\ UNCHANGED <<cmd, opts, loc, asked, now, repo0>>

FixupNext == FixupStart \/ FixupConfirm \/ FixupStage \/ FixupAmend

(***************************************************************************)
(* save                                                                    *)
(***************************************************************************)
\* status.staged.length + status.unstaged.length + status.untracked.length
SaveTotalChanges(st) ==
    Cardinality(st.staged) + Cardinality(st.unstaged) + Cardinality(st.untracked)

\* save 22-58: status and preview.
SaveStart ==
    /\ pc = "start" /\ cmd = "save"
    /\ \E fault \in Faults :
         LET st == GetStatus(repo) IN
         /\ envFault' = (envFault \/ fault)
         /\ IF fault THEN Finish("ExternalToolError", {}) /\ UNCHANGED loc
            ELSE /\ loc' = [loc EXCEPT !.status = st, !.totalChanges = SaveTotalChanges(st)]
                 /\ IF SaveTotalChanges(st) = 0 THEN Finish("ok", {"nothing to do"})
                    ELSE /\ pc' = IF opts.yes THEN "save_stage" ELSE "save_confirm"
                         /\ UNCHANGED <<outcome, msgs>>
    /\ UNCHANGED <<repo, cmd, opts, calls, asked, now, repo0>>

\* save 61-72
SaveConfirm ==
    /\ pc = "save_confirm"
    /\ Confirm("save_stage")
    /\ UNCHANGED <<repo, cmd, opts, calls, loc, now, repo0, envFault>>

\* save 75-76: git add -A
SaveStage ==
    /\ pc = "save_stage"
    /\ \E fault \in Faults :
         /\ envFault' = (envFault \/ fault)
         /\ Issue("add -A", 0, Exec(GitAddAll(repo), fault), "save_commit")
    /\ UNCHANGED <<cmd, opts, loc, asked, now, repo0>>

\* save 79-98: git commit -m, then the summary.
SaveCommit ==
    /\ pc = "save_commit"
    /\ \E fault \in Faults :
         /\ envFault' = (envFault \/ fault)
         /\ IssueLast("commit", 0, Exec(GitCommit(repo), fault), {"success"})
    /\ UNCHANGED <<cmd, opts, loc, asked, now, repo0>>

SaveNext == SaveStart \/ SaveConfirm \/ SaveStage \/ SaveCommit

(***************************************************************************)
(* split                                                                   *)
(***************************************************************************)
\* git diff --cached --name-only: the changed paths, in path order.
GetStagedFiles(r) ==
    Sorted(CodeUnitOrder, {PathOf(f) : f \in {g \in Files : r.index[g] # HeadTree(r)[g]}})

\* split.ts 61-73: the preview lists one commit per group, in group order.
SplitAnnounced(groups) == [k \in 1..Len(groups) |-> Step("commit", k)]

\* split.ts 22-73: staged files, grouping, plan. No prompt is shown.
SplitStart ==
    /\ pc = "start" /\ cmd = "split"
    /\ \E fault \in Faults :
         LET groups == groupFilesByDirectory(GetStagedFiles(repo)) IN
         /\ envFault' = (envFault \/ fault)
         /\ IF fault THEN Finish("ExternalToolError", {}) /\ UNCHANGED loc
            ELSE IF GetStagedFiles(repo) = <<>> THEN Finish("ok", {"nothing to do"}) /\ UNCHANGED loc
            ELSE /\ loc' = [loc EXCEPT !.groups = groups, !.gi = 1,
                                       !.announced = IF Len(groups) <= 1 THEN <<>>
                                                     ELSE Announce(opts, SplitAnnounced(groups))]
                 /\ IF Len(groups) <= 1 THEN Finish("ok", {"no split needed"})
                    ELSE IF opts.dryRun THEN Finish("ok", {"dry run"})
                    ELSE pc' = "split_unstage" /\ UNCHANGED <<outcome, msgs>>
    /\ UNCHANGED <<repo, cmd, opts, calls, asked, now, repo0>>

\* split.ts 84: git reset HEAD
SplitUnstage ==
    /\ pc = "split_unstage"
    /\ \E fault \in Faults :
         /\ envFault' = (envFault \/ fault)
         /\ Issue("reset HEAD", 0, Exec(GitUnstageAll(repo), fault), "split_stage")
    /\ UNCHANGED <<cmd, opts, loc, asked, now, repo0>>

\* The loop moves to the next group, or the run ends with the count of commits.
SplitAdvance(l) ==
    IF l.gi < Len(l.groups)
    THEN pc' = "split_unstage" /\ loc' = [l EXCEPT !.gi = @ + 1] /\ UNCHANGED <<outcome, msgs>>
    ELSE Finish("ok", {"success"}) /\ loc' = l

\* split.ts 87-94: git add <files of the group>; a group with nothing staged is skipped.
SplitStage ==
    /\ pc = "split_stage"
    /\ \E fault \in Faults :
         LET res == Exec(GitAdd(repo, {FileAt(p) : p \in SeqToSet(loc.groups[loc.gi].files)}), fault) IN
         /\ envFault' = (envFault \/ fault)
         /\ calls' = Append(calls, Call("add", loc.gi, res.ok))
         /\ repo' = res.repo
         /\ IF ~res.ok THEN Finish("ExternalToolError", {}) /\ UNCHANGED loc
            ELSE IF GetStatus(res.repo).staged = {} THEN SplitAdvance(loc)
            ELSE pc' = "split_commit" /\ UNCHANGED <<outcome, msgs, loc>>
    /\ UNCHANGED <<cmd, opts, asked, now, repo0>>

\* split.ts 97-100: the scope named by the generated message, chore(<scope>): ...
SplitMessageScope(group) ==
    IF group.directory = RootGroup THEN <<"r", "o", "o", "t">> ELSE group.directory

\* split.ts 97-105: git commit -m "chore(<dir>): split from mixed changes"
SplitCommit ==
    /\ pc = "split_commit"
    /\ \E fault \in Faults :
         LET res == Exec(GitCommit(repo), fault) IN
         /\ envFault' = (envFault \/ fault)
         /\ calls' = Append(calls, Call("commit", loc.gi, res.ok))
         /\ repo' = res.repo
         /\ IF ~res.ok THEN Finish("ExternalToolError", {}) /\ UNCHANGED loc
            ELSE SplitAdvance([loc EXCEPT !.committed = @ + 1])
    /\ UNCHANGED <<cmd, opts, asked, now, repo0>>

SplitNext == SplitStart \/ SplitUnstage \/ SplitStage \/ SplitCommit

\* groupFilesByDirectory applied on its own to a list of paths.
GroupFiles ==
    /\ pc = "start" /\ cmd = "groupFilesByDirectory"
    /\ loc' = [loc EXCEPT !.groups = groupFilesByDirectory(opts.paths)]
    /\ Finish("ok", {})
    /\ UNCHANGED <<repo, cmd, opts, calls, asked, now, repo0, envFault>>

(***************************************************************************)
(* wrong-branch                                                            *)
(***************************************************************************)
\* The fallback without its second step: local main or nothing.
WrongBaseMainOnly(r) ==
    IF HasUpstream(r) THEN Upstream(r) ELSE Tip(r, BranchMain)
\* The reference the branch is compared with: its upstream, else local main, else
\* local master; 0 when there is none.
WrongBase(r) ==
    IF HasUpstream(r) THEN Upstream(r)
    ELSE IF Tip(r, BranchMain) # 0 THEN Tip(r, BranchMain)
    ELSE Tip(r, BranchMaster)
\* git rev-list --count <upstream>..HEAD
WrongUnique(r) == Cardinality(Ancestors(r, HeadId(r)) \ Ancestors(r, WrongBase(r)))
\* The target branch: the argument, else fix/<sanitized subject of the newest commit>.
WrongTarget(o, r) ==
    IF o.newBranch # <<>> THEN o.newBranch
    ELSE <<"fix", Spelled(sanitizeBranchName(r.objs[HeadId(r)].subject))>>

\* wrong-branch 114-121: the preview's list.
WrongAnnounced ==
    <<Step("checkout -b", 0), Step("checkout", 1), Step("reset --hard", 0), Step("checkout", 2)>>

\* wrong-branch 30-121
WrongStart ==
    /\ pc = "start" /\ cmd = "wrong-branch"
    /\ \E fault \in Faults :
         /\ envFault' = (envFault \/ fault)
         /\ IF fault \/ HeadId(repo) = 0 THEN Finish("ExternalToolError", {}) /\ UNCHANGED loc
            ELSE IF isProtectedBranch(repo.branch) /\ ~opts.yes
            THEN Finish("ValidationError", {}) /\ UNCHANGED loc
            ELSE IF WrongBase(repo) = 0 THEN Finish("ValidationError", {}) /\ UNCHANGED loc
            ELSE /\ loc' = [loc EXCEPT !.current = repo.branch, !.base = WrongBase(repo),
                                       !.unique = WrongUnique(repo), !.target = WrongTarget(opts, repo),
                                       !.announced = IF WrongUnique(repo) = 0 THEN <<>>
                                                     ELSE Announce(opts, WrongAnnounced)]
                 /\ IF WrongUnique(repo) = 0 THEN Finish("ok", {"nothing to do"})
                    ELSE IF opts.dryRun THEN Finish("ok", {"dry run"})
                    ELSE /\ pc' = IF opts.yes THEN "wrong_create" ELSE "wrong_confirm"
                         /\ UNCHANGED <<outcome, msgs>>
    /\ UNCHANGED <<repo, cmd, opts, calls, asked, now, repo0>>

\* wrong-branch 124-138
WrongConfirm ==
    /\ pc = "wrong_confirm"
    /\ Confirm("wrong_create")
    /\ UNCHANGED <<repo, cmd, opts, calls, loc, now, repo0, envFault>>

\* wrong-branch 145: git checkout -b <target>
WrongCreate ==
    /\ pc = "wrong_create"
    /\ \E fault \in Faults :
         /\ envFault' = (envFault \/ fault)
         /\ Issue("checkout -b", 0, Exec(GitCreateBranch(repo, loc.target), fault), "wrong_back")
    /\ UNCHANGED <<cmd, opts, loc, asked, now, repo0>>

\* wrong-branch 149: git checkout <current>
WrongSwitchBack ==
    /\ pc = "wrong_back"
    /\ \E fault \in Faults :
         /\ envFault' = (envFault \/ fault)
         /\ Issue("checkout", 1, Exec(GitSwitch(repo, loc.current), fault), "wrong_reset")
    /\ UNCHANGED <<cmd, opts, loc, asked, now, repo0>>

\* wrong-branch 153: git reset --hard <upstream>
WrongReset ==
    /\ pc = "wrong_reset"
    /\ \E fault \in Faults :
         /\ envFault' = (envFault \/ fault)
         /\ Issue("reset --hard", 0, Exec(GitResetHard(repo, loc.base), fault), "wrong_switch")
    /\ UNCHANGED <<cmd, opts, loc, asked, now, repo0>>

\* wrong-branch 157-173: git checkout <target>, then the summary.
WrongSwitchNew ==
    /\ pc = "wrong_switch"
    /\ \E fault \in Faults :
         /\ envFault' = (envFault \/ fault)
         /\ IssueLast("checkout", 2, Exec(GitSwitch(repo, loc.target), fault), {"success"})
    /\ UNCHANGED <<cmd, opts, loc, asked, now, repo0>>

WrongNext ==
    WrongStart \/ WrongConfirm \/ WrongCreate \/ WrongSwitchBack \/ WrongReset \/ WrongSwitchNew

(***************************************************************************)
(* yank                                                                    *)
(***************************************************************************)
\* The status check of yank.ts 40-43 left out: every tree counts as dirty.
YankDirtyAlways(st) == TRUE
YankDirty(st) == st.unstaged # {} \/ st.untracked # {} \/ st.staged # {}

\* yank.ts 16-65: upstream check and status. No prompt is shown.
YankStart ==
    /\ pc = "start" /\ cmd = "yank"
    /\ \E fault \in Faults :
         LET st == GetStatus(repo) IN
         /\ envFault' = (envFault \/ fault)
         /\ IF fault \/ HeadId(repo) = 0 THEN Finish("ExternalToolError", {}) /\ UNCHANGED loc
            ELSE /\ loc' = [loc EXCEPT !.status = st]
                 /\ pc' = IF ~HasUpstream(repo) THEN "yank_plain"
                          ELSE IF YankDirty(st) THEN "yank_stash" ELSE "yank_pull"
                 /\ msgs' = msgs \cup (IF HasUpstream(repo) THEN {} ELSE {"no upstream"})
                 /\ UNCHANGED outcome
    /\ UNCHANGED <<repo, cmd, opts, calls, asked, now, repo0>>

\* yank.ts 25-33: git pull without an upstream; a failure is rethrown as a plain Error.
YankPullPlain ==
    /\ pc = "yank_plain"
    /\ \E fault \in Faults :
         LET res == Exec(GitPull(repo, FALSE), fault) IN
         /\ envFault' = (envFault \/ fault)
         /\ calls' = Append(calls, Call("pull", 0, res.ok))
         /\ repo' = res.repo
         /\ IF res.ok THEN Finish("ok", {"success"}) ELSE Finish("Error", {})
    /\ UNCHANGED <<cmd, opts, loc, asked, now, repo0>>

\* yank.ts 53-62: git stash push -u -m oops-yank-<timestamp>
YankStash ==
    /\ pc = "yank_stash"
    /\ \E fault \in Faults :
         LET got == GitStashPush(repo)
             res == IF fault THEN [ok |-> FALSE, repo |-> repo, saved |-> FALSE] ELSE got
         IN  /\ envFault' = (envFault \/ fault)
             /\ calls' = Append(calls, Call("stash push", 0, res.ok))
             /\ repo' = res.repo
             /\ IF res.ok
                THEN /\ pc' = "yank_pull"
                     /\ loc' = [loc EXCEPT !.stashed = res.saved]
                     /\ msgs' = msgs \cup (IF res.saved THEN {"stashed"} ELSE {})
                     /\ UNCHANGED outcome
                ELSE Finish("ExternalToolError", {}) /\ UNCHANGED loc
    /\ UNCHANGED <<cmd, opts, asked, now, repo0>>

\* The pull with its failure swallowed: the restore is attempted all the same.
YankPullThenRestore ==
    /\ pc = "yank_pull"
    /\ \E fault \in Faults :
         LET res == Exec(GitPull(repo, TRUE), fault) IN
         /\ envFault' = (envFault \/ fault)
         /\ calls' = Append(calls, Call("pull --rebase", 0, res.ok))
         /\ repo' = res.repo
         /\ IF loc.stashed THEN pc' = "yank_pop" /\ UNCHANGED <<outcome, msgs>>
            ELSE IF res.ok THEN Finish("ok", {"success"})
            ELSE Finish("ExternalToolError", {})
    /\ UNCHANGED <<cmd, opts, loc, asked, now, repo0>>

\* yank.ts 68-82 and 102-103: git pull --rebase; without a stash the run ends here.
YankPull ==
    /\ pc = "yank_pull"
    /\ \E fault \in Faults :
         LET res == Exec(GitPull(repo, TRUE), fault) IN
         /\ envFault' = (envFault \/ fault)
         /\ calls' = Append(calls, Call("pull --rebase", 0, res.ok))
         /\ repo' = res.repo
         /\ IF ~res.ok
            THEN Finish("ExternalToolError", IF loc.stashed THEN {"stash is safe"} ELSE {})
            ELSE IF loc.stashed THEN pc' = "yank_pop" /\ UNCHANGED <<outcome, msgs>>
            ELSE Finish("ok", {"success"})
    /\ UNCHANGED <<cmd, opts, loc, asked, now, repo0>>

\* The restore with its failure raised like any other failure.
YankPopRaising ==
    /\ pc = "yank_pop"
    /\ \E fault \in Faults :
         /\ envFault' = (envFault \/ fault)
         /\ IssueLast("stash pop", 0, Exec(GitStashPop(repo), fault), {"success"})
    /\ UNCHANGED <<cmd, opts, loc, asked, now, repo0>>

\* yank.ts 85-103: git stash pop; a failure is reported and the run returns normally.
YankPop ==
    /\ pc = "yank_pop"
    /\ \E fault \in Faults :
         LET res == Exec(GitStashPop(repo), fault) IN
         /\ envFault' = (envFault \/ fault)
         /\ calls' = Append(calls, Call("stash pop", 0, res.ok))
         /\ repo' = res.repo
         /\ Finish("ok", IF res.ok THEN {"success"} ELSE {"restore failed"})
    /\ UNCHANGED <<cmd, opts, loc, asked, now, repo0>>

YankNext == YankStart \/ YankPullPlain \/ YankStash \/ YankPull \/ YankPop

(***************************************************************************)
(* pocket                                                                  *)
(***************************************************************************)
\* pocket.ts 21-55: snapshot the working state (stash create, else HEAD) and store it
\* under refs/pocket/<branch>. stash create failing falls back to HEAD as well.
\* The snapshot id taken as it comes, with no fallback to HEAD.
PocketShaOfStashOnly(created) == [kind |-> "stash", id |-> created.id]
PocketSha(created) ==
    IF created.ok /\ created.id # 0 THEN [kind |-> "stash", id |-> created.id]
    ELSE [kind |-> "commit", id |-> HeadId(repo)]

PocketSave ==
    /\ pc = "start" /\ cmd = "pocket"
    /\ \E stashFault \in Faults, fault \in Faults :
         LET created == IF stashFault THEN [ok |-> FALSE, repo |-> repo, id |-> 0]
                        ELSE GitStashCreate(repo)
             sha == PocketSha(created)
             res == Exec(GitUpdatePocketRef(created.repo, repo.branch, sha), fault)
         IN  /\ envFault' = (envFault \/ stashFault \/ fault)
             /\ IF HeadId(repo) = 0
                THEN \* rev-parse of HEAD fails in a repository without commits
                     /\ Finish("ExternalToolError", {})
                     /\ UNCHANGED <<repo, calls, loc>>
                ELSE /\ repo' = IF fault THEN created.repo ELSE res.repo
                     /\ calls' = Append(calls, Call("update-ref", 0, res.ok))
                     /\ loc' = [loc EXCEPT !.pocketSha = sha]
                     /\ IF res.ok
                        THEN /\ pc' = "pocket_reset"
                             /\ msgs' = msgs \cup {"saved to pocket ref"}
                                        \cup (IF created.ok /\ created.id = 0
                                              THEN {"no changes detected"} ELSE {})
                             /\ UNCHANGED outcome
                        ELSE Finish("ExternalToolError", {})
    /\ UNCHANGED <<cmd, opts, asked, now, repo0>>

\* pocket.ts 58-59: git reset --hard HEAD
PocketReset ==
    /\ pc = "pocket_reset"
    /\ \E fault \in Faults :
         LET res == Exec(GitResetHard(repo, HeadId(repo)), fault) IN
         /\ envFault' = (envFault \/ fault)
         /\ calls' = Append(calls, Call("reset --hard", 0, res.ok))
         /\ repo' = res.repo
         /\ IF res.ok THEN pc' = "pocket_clean" /\ UNCHANGED <<outcome, msgs>>
            ELSE Finish("ExternalToolError", {})
    /\ UNCHANGED <<cmd, opts, loc, asked, now, repo0>>

\* The remote --push names: the flag alone means origin.
PocketRemote(o) == IF o.push = "flag" THEN "origin" ELSE o.push

\* pocket.ts 60-70: git clean -fd, then the remote check of --push.
PocketClean ==
    /\ pc = "pocket_clean"
    /\ \E fault \in Faults :
         LET res == Exec(GitClean(repo), fault) IN
         /\ envFault' = (envFault \/ fault)
         /\ calls' = Append(calls, Call("clean -fd", 0, res.ok))
         /\ repo' = res.repo
         /\ IF ~res.ok THEN Finish("ExternalToolError", {})
            ELSE IF opts.push = "absent" THEN Finish("ok", {"working directory clean"})
            ELSE IF PocketRemote(opts) \notin repo.remotes
            THEN Finish("ValidationError", {"working directory clean"})
            ELSE pc' = "pocket_push" /\ msgs' = msgs \cup {"working directory clean"}
                 /\ UNCHANGED outcome
    /\ UNCHANGED <<cmd, opts, loc, asked, now, repo0>>

\* pocket.ts 72-85: git push <remote> ref:ref; a failed push is logged, not rethrown.
PocketPush ==
    /\ pc = "pocket_push"
    /\ \E fault \in Faults :
         /\ envFault' = (envFault \/ fault)
         /\ calls' = Append(calls, Call("push", 0, ~fault))
         /\ Finish("ok", IF fault THEN {"push failed"} ELSE {"pushed"})
    /\ UNCHANGED <<repo, cmd, opts, loc, asked, now, repo0>>

PocketNext == PocketSave \/ PocketReset \/ PocketClean \/ PocketPush

(***************************************************************************)
(* Initial repositories.                                                   *)
(***************************************************************************)
\* Parent lists a commit with id i may have: 1..MaxParents distinct earlier commits.
ParentSeqs(i) ==
    IF i = 1 THEN {<<>>}
    ELSE {s \in UNION {[1..k -> 1..(i - 1)] : k \in 1..MaxParents} :
            \A a, b \in DOMAIN s : a # b => s[a] # s[b]}

\* The trees of a commit that adds, changes or deletes exactly one file of its parent
\* (git refuses a commit that changes nothing; a merge may leave the tree alone).
CommitTrees(h, p) ==
    LET base == IF p = <<>> THEN EmptyTree ELSE h[p[1]].tree IN
    IF Len(p) > 1 THEN {base}
    ELSE {t \in Trees : Cardinality({f \in Files : t[f] # base[f]}) = 1}

\* Straight-line histories, every commit changing one file.
RECURSIVE LinearHistories(_)
LinearHistories(n) ==
    IF n = 0 THEN {<<>>}
    ELSE UNION {{Append(h, [parents |-> IF n = 1 THEN <<>> ELSE <<n - 1>>, tree |-> t,
                          subject |-> DefaultSubject]) :
                    t \in CommitTrees(h, IF n = 1 THEN <<>> ELSE <<n - 1>>)} :
                h \in LinearHistories(n - 1)}

\* Histories of every shape (side branches, merges), commit i holding the tree ShapeTree(i).
ShapeTree(i) ==
    [f \in Files |-> IF f = FileA THEN i % 2 ELSE IF f = FileB THEN (i \div 2) % 2 ELSE 0]
RECURSIVE ShapedHistories(_)
ShapedHistories(n) ==
    IF n = 0 THEN {<<>>}
    ELSE UNION {{Append(h, [parents |-> p, tree |-> ShapeTree(n), subject |-> DefaultSubject]) : p \in ParentSeqs(n)} :
                h \in ShapedHistories(n - 1)}

AllHistories ==
    UNION {LinearHistories(n) \cup ShapedHistories(n) : n \in 0..MaxCommits}

\* The index and the work tree a history comes with: any pair on a straight line of
\* commits; on a history with side branches or merges, the pairs with nothing staged
\* or nothing changed after staging.
IsStraight(h) == \A k \in 1..Len(h) : h[k].parents = IF k = 1 THEN <<>> ELSE <<k - 1>>
WorkPairs(h) ==
    IF IsStraight(h) THEN Trees \X Trees
    ELSE {p \in Trees \X Trees : p[1] = h[Len(h)].tree \/ p[2] = p[1]}

RepoWith(h, up, i, w, tg) ==
    [objs |-> h, snaps |-> <<>>,
     heads |-> (BranchMain :> Len(h)),
     remote |-> (BranchMain :> up),
     branch |-> BranchMain, index |-> i, wt |-> w, tags |-> tg,
     pocket |-> <<>>, stash |-> <<>>, remotes |-> {"origin"}]

InitRun(c) ==
    /\ cmd = c /\ pc = "start" /\ outcome = "running" /\ calls = <<>> /\ msgs = {}
    /\ loc = Loc0 /\ asked = FALSE /\ now = 1 /\ envFault = FALSE

CommitArgs ==
    {<<>>, <<"0">>, <<"1">>, <<"2">>, <<"3">>, <<"1", "0">>, <<"1", "1">>,
     <<"x">>, <<"2", "x">>, <<"-", "1">>}

\* The tags already in the repository: one left by an earlier undo of the same count
\* in the same second (its random suffix may or may not come up again in this run).
UndoPriorTags(o) ==
    LET n == UndoCount(o) IN
    IF n.nan THEN {{}} ELSE {{[name |-> UndoTagName(n.val, 1, SuffixShort), target |-> 1]}}

InitUndo ==
    /\ InitRun("undo")
    /\ \E y \in BOOLEAN, d \in BOOLEAN, c \in CommitArgs :
         opts = [Opts0 EXCEPT !.yes = y, !.dryRun = d, !.commits = c]
    /\ \E h \in AllHistories :
         \E up \in 0..Len(h), p \in WorkPairs(h), tg \in UndoPriorTags(opts) :
            repo = RepoWith(h, up, p[1], p[2], IF h = <<>> THEN {} ELSE tg)
    /\ repo0 = repo

SpecUndo == InitUndo /\ [][UndoNext]_vars

ShaLens == {6, 7}
ShaArgs ==
    {[hex |-> x, len |-> n, id |-> 1] : x \in BOOLEAN, n \in ShaLens}
    \cup {[hex |-> TRUE, len |-> 7, id |-> c] : c \in 1..(MaxCommits + 1)}
MainlineArgs == {<<>>, <<"0">>, <<"1">>, <<"2">>, <<"3">>, <<"x">>, <<"2", "x">>}

\* A tag left by an earlier revert-merge of the same commit in the same second.
RevertPriorTags(o) == {{}, {[name |-> RevertTagName(o.sha, 1), target |-> 1]}}

\* The tree of the first commit of the scenarios: FileB only.
ScenarioBase == [f \in Files |-> IF f = FileB THEN 1 ELSE 0]
\* A merge that brought in FileA, followed on the branch by a commit that edits
\* FileA: reverting the merge would delete a file that was modified since.
ScenarioMerged == [f \in Files |-> IF f \in {FileA, FileB} THEN 1 ELSE 0]
ScenarioEdited == [ScenarioMerged EXCEPT ![FileA] = Edited]
RevertConflictRepo ==
    RepoWith(<<[parents |-> <<>>, tree |-> ScenarioBase, subject |-> DefaultSubject],
               [parents |-> <<1>>, tree |-> ScenarioMerged, subject |-> DefaultSubject],
               [parents |-> <<1, 2>>, tree |-> ScenarioMerged, subject |-> DefaultSubject],
               [parents |-> <<3>>, tree |-> ScenarioEdited, subject |-> DefaultSubject]>>,
             0, ScenarioEdited, ScenarioEdited, {})

InitRevert ==
    /\ InitRun("revert-merge")
    /\ \E y \in BOOLEAN, d \in BOOLEAN, a \in ShaArgs, m \in MainlineArgs :
         opts = [Opts0 EXCEPT !.yes = y, !.dryRun = d, !.sha = a, !.mainline = m]
    /\ \/ \E h \in UNION {ShapedHistories(n) : n \in 0..MaxCommits} :
            \E p \in WorkPairs(h), tg \in RevertPriorTags(opts) :
               repo = RepoWith(h, 0, p[1], p[2], IF h = <<>> THEN {} ELSE tg)
       \/ repo = RevertConflictRepo
    /\ repo0 = repo

SpecRevert == InitRevert /\ [][RevertNext]_vars

PushArgs == {"absent", "flag", "backup"}

\* Pocket refs left by earlier runs: one of branch dev and one of the current branch.
PriorPocketRefs ==
    (BranchDev :> [kind |-> "commit", id |-> 1]) @@ (BranchMain :> [kind |-> "commit", id |-> 1])
InitPocket ==
    /\ InitRun("pocket")
    /\ \E y \in BOOLEAN, ps \in PushArgs : opts = [Opts0 EXCEPT !.yes = y, !.push = ps]
    /\ \E h \in AllHistories, i \in Trees :
         \E w \in Trees, rm \in {{}, {"origin"}}, prior \in BOOLEAN :
            \* pocket refs of earlier runs come with a straight history
            /\ prior => IsStraight(h) /\ h # <<>>
            /\ repo = [RepoWith(h, 0, i, w, {}) EXCEPT
                          !.remotes = rm,
                          !.pocket = IF prior THEN PriorPocketRefs ELSE <<>>]
    /\ repo0 = repo

SpecPocket == InitPocket /\ [][PocketNext]_vars

\* undo and revert-merge: the two workflows that create a safety tag.
SpecTagged == (InitUndo \/ InitRevert) /\ [][UndoNext \/ RevertNext]_vars

StraightHistories == UNION {LinearHistories(n) : n \in 0..MaxCommits}

InitFixup ==
    /\ InitRun("fixup")
    /\ \E y \in BOOLEAN, d \in BOOLEAN, m \in BOOLEAN :
         opts = [Opts0 EXCEPT !.yes = y, !.dryRun = d, !.message = m]
    /\ \E h \in StraightHistories, i \in Trees :
         \E up \in 0..Len(h), w \in Trees : repo = RepoWith(h, up, i, w, {})
    /\ repo0 = repo

SpecFixup == InitFixup /\ [][FixupNext]_vars

InitSave ==
    /\ InitRun("save")
    /\ \E y \in BOOLEAN, m \in BOOLEAN : opts = [Opts0 EXCEPT !.yes = y, !.message = m]
    /\ \E h \in StraightHistories, i \in Trees, w \in Trees : repo = RepoWith(h, 0, i, w, {})
    /\ repo0 = repo

SpecSave == InitSave /\ [][SaveNext]_vars

\* save run again right after a successful save; `now` counts the runs.
SaveRuns == 2
SaveAgain ==
    /\ cmd = "save" /\ pc = "done" /\ outcome = "ok" /\ "success" \in msgs
    /\ now < SaveRuns
    /\ now' = now + 1
    /\ \E y \in BOOLEAN, m \in BOOLEAN : opts' = [Opts0 EXCEPT !.yes = y, !.message = m]
    /\ pc' = "start" /\ outcome' = "running" /\ calls' = <<>> /\ msgs' = {}
    /\ loc' = Loc0 /\ asked' = FALSE /\ repo0' = repo
    /\ UNCHANGED <<repo, cmd, envFault>>
SpecSaveTwice == InitSave /\ [][SaveNext \/ SaveAgain]_vars

\* One commit holding FileB, and src/a.js, src/b.js and docs/readme.md newly staged.
ScenarioStaged == [f \in Files |-> 1]
SplitScenarioRepo ==
    RepoWith(<<[parents |-> <<>>, tree |-> ScenarioBase, subject |-> DefaultSubject]>>, 0, ScenarioStaged, ScenarioStaged, {})

InitSplit ==
    /\ InitRun("split")
    /\ \E y \in BOOLEAN, d \in BOOLEAN : opts = [Opts0 EXCEPT !.yes = y, !.dryRun = d]
    /\ \/ \E h \in StraightHistories, i \in Trees, w \in Trees : repo = RepoWith(h, 0, i, w, {})
       \/ repo = SplitScenarioRepo
    /\ repo0 = repo

SpecSplit == InitSplit /\ [][SplitNext]_vars

\* Paths handed to groupFilesByDirectory: root files, files in directories, a path
\* starting with a separator, a Windows path, a directory named like the root sentinel.
GroupPaths ==
    {<<"n">>, <<"a">>, <<"s", "/", "a">>, <<"s", "/", "n">>, <<"a", "/", "n">>,
     <<"/", "a">>, <<"s", "\\", "a">>, RootGroup \o <<"/", "a">>}
PathLists == UNION {[1..k -> GroupPaths] : k \in 0..MaxPaths}

InitGroup ==
    /\ InitRun("groupFilesByDirectory")
    /\ \E q \in PathLists : opts = [Opts0 EXCEPT !.paths = q]
    /\ repo = RepoWith(<<>>, 0, EmptyTree, EmptyTree, {})
    /\ repo0 = repo

SpecGroup == InitGroup /\ [][GroupFiles]_vars

\* The run starts on main or on dev; on dev, main may sit anywhere on the history.
WrongStartBranches ==
    {BranchMain, BranchDev, BranchMaster, BranchProduction, BranchProd, BranchRelease,
     BranchHotfix, BranchReleaseBare, BranchProdSub, BranchDetached}

InitWrong ==
    /\ InitRun("wrong-branch")
    /\ \E y \in BOOLEAN, d \in BOOLEAN, nb \in {<<>>, BranchDev} :
         opts = [Opts0 EXCEPT !.yes = y, !.dryRun = d, !.newBranch = nb]
    /\ \E h \in StraightHistories, i \in Trees, b \in WrongStartBranches :
         \E up \in 0..Len(h), w \in Trees, m \in 0..Len(h), s \in Subjects,
            fb \in {BranchMain, BranchMaster} :
            /\ b = BranchMain => m = Len(h)
            \* a local master in place of main comes with branch dev, no upstream,
            \* the default subject and a clean work tree
            /\ fb = BranchMaster =>
                  /\ b = BranchDev /\ up = 0 /\ m # 0 /\ s = DefaultSubject
                  /\ i = h[Len(h)].tree /\ w = i
            \* the branches other than main and dev come with the default subject,
            \* a clean work tree and no branch main
            /\ b \notin {BranchMain, BranchDev} =>
                  /\ s = DefaultSubject /\ m = 0
                  /\ h # <<>> /\ i = h[Len(h)].tree /\ w = i
            \* subjects other than the default one come with a clean work tree
            /\ s # DefaultSubject => h # <<>> /\ i = h[Len(h)].tree /\ w = i
            /\ repo = [RepoWith(h, 0, i, w, {}) EXCEPT
                          !.objs = IF h = <<>> THEN h ELSE [h EXCEPT ![Len(h)].subject = s],
                          !.branch = b,
                          !.heads = IF m = 0 THEN (b :> Len(h))
                                    ELSE (b :> Len(h)) @@ (fb :> m),
                          !.remote = (b :> up)]
    /\ repo0 = repo

SpecWrong == InitWrong /\ [][WrongNext]_vars

\* HEAD may be behind, at, or ahead of the remote-tracking tip.
\* A stash entry left by earlier work: FileB changed on top of the first commit.
PriorStashEntry(h) ==
    [base |-> 1, itree |-> h[1].tree,
     wtree |-> [h[1].tree EXCEPT ![FileB] = 1 - @], utree |-> EmptyTree]
InitYank ==
    /\ InitRun("yank")
    /\ \E y \in BOOLEAN : opts = [Opts0 EXCEPT !.yes = y]
    /\ \E h \in AllHistories, i \in Trees :
         \E up \in 0..Len(h), w \in Trees, hd \in 0..Len(h), prior \in BOOLEAN :
            /\ hd = 0 => h = <<>>
            \* an older stash entry comes with a straight history checked out at its tip
            /\ prior => IsStraight(h) /\ hd = Len(h) /\ hd # 0
            /\ repo = [RepoWith(h, up, i, w, {}) EXCEPT
                          !.heads[BranchMain] = hd,
                          !.snaps = IF prior THEN <<PriorStashEntry(h)>> ELSE <<>>,
                          !.stash = IF prior THEN <<1>> ELSE <<>>]
    /\ repo0 = repo

SpecYank == InitYank /\ [][YankNext]_vars

\* Any one run of any workflow.
Init ==
    \/ InitUndo \/ InitFixup \/ InitSave \/ InitSplit
    \/ InitWrong \/ InitYank \/ InitPocket \/ InitRevert
Next ==
    \/ UndoNext \/ FixupNext \/ SaveNext \/ SplitNext
    \/ WrongNext \/ YankNext \/ PocketNext \/ RevertNext
Spec == Init /\ [][Next]_vars

(***************************************************************************)
(*                              C L A I M S                                *)
(***************************************************************************)
\* The run went past its confirmation gate: not a preview, and --yes or a yes answer.
Confirmed == ~opts.dryRun /\ (opts.yes \/ (asked /\ "cancelled" \notin msgs))

\* The -n text as the user means it: a plain decimal integer, and its value.
\* (an empty -n counts as not given: the default, 1)
UndoArgText == OrDefault(opts.commits, <<"1">>)
UndoArgIsNumber == IsPlainInteger(UndoArgText)
UndoArgValue == ParseInt(UndoArgText).val
UndoArgInRange == UndoArgIsNumber /\ UndoArgValue >= 1 /\ UndoArgValue <= MaxUndo

CommitsAtStart == Cardinality(Ancestors(repo0, HeadId(repo0)))
\* A confirmed undo that ended, with no outside failure and no tag-name collision.
UndoRanToEnd ==
    /\ cmd = "undo" /\ pc = "done" /\ Confirmed /\ ~envFault
    /\ \A i \in DOMAIN calls : calls[i].op = "tag" => calls[i].ok

\* C5 (as claimed; its no-tag, no-mutation part): for N > 10, N < 1 or a
\* non-numeric N, undo creates no safety tag and issues no history-mutating call.
C5_InvalidCountNeverMutates ==
    (cmd = "undo" /\ ~UndoArgInRange) => (repo.tags = repo0.tags /\ calls = <<>>)

\* C6 (as claimed): for 1 <= N <= 10 and a repository with at least N commits,
\* a confirmed undo -n N ends with HEAD exactly N commits earlier.
C6_HeadMovesBackN ==
    (UndoRanToEnd /\ UndoArgInRange /\ CommitsAtStart >= UndoArgValue)
        => HeadId(repo) = NthFirstParent(repo0, HeadId(repo0), UndoArgValue)

\* C7 (as claimed): asked for N commits when fewer exist, undo warns, completes
\* successfully and HEAD has moved back.
C7_ShortHistoryStillUndone ==
    (UndoRanToEnd /\ UndoArgInRange /\ CommitsAtStart >= 1 /\ CommitsAtStart < UndoArgValue)
        => (outcome = "ok" /\ "only some commits available" \in msgs
            /\ HeadId(repo) # HeadId(repo0))

\* Files a commit touches: those that differ from its first parent's tree.
Touched(r, c) ==
    LET p == IF r.objs[c].parents = <<>> THEN 0 ELSE r.objs[c].parents[1] IN
    {f \in Files : TreeOf(r, c)[f] # TreeOf(r, p)[f]}
UndoneCommits ==
    {NthFirstParent(repo0, HeadId(repo0), k) : k \in 0..(loc.commitCount - 1)} \ {0}
TouchedByUndone == UNION {Touched(repo0, c) : c \in UndoneCommits}
UndoSucceeded == cmd = "undo" /\ pc = "done" /\ outcome = "ok" /\ calls # <<>>
UndoNewHead == NthFirstParent(repo0, HeadId(repo0), loc.commitCount)
\* Only the branch tip moved and the safety tag (at the old tip) was added.
UndoFrame ==
    repo = [repo0 EXCEPT !.heads[repo0.branch] = UndoNewHead,
                         !.tags = @ \cup {[name |-> loc.tagName, target |-> HeadId(repo0)]}]

\* C8 (as claimed): a successful undo moves only the tip and adds the tag, and every
\* file touched by an undone commit, and every file already staged, is staged afterwards.
C8_TouchedFilesAllStaged ==
    UndoSucceeded =>
        /\ UndoFrame
        /\ (TouchedByUndone \cup GetStatus(repo0).staged) \subseteq loc.status.staged

\* C8 (amended): a successful undo moves only the tip and adds the tag (index and
\* working tree are untouched); the staged set afterwards is exactly the files whose
\* index content differs from the new HEAD, so a file touched by an undone commit or
\* staged before is in it unless its index content equals its content at the new HEAD.
C8_StagedIsIndexAgainstNewHead ==
    UndoSucceeded =>
        /\ UndoFrame
        /\ loc.status.staged = {f \in Files : repo0.index[f] # TreeOf(repo0, UndoNewHead)[f]}
        /\ \A f \in TouchedByUndone \cup GetStatus(repo0).staged :
              f \in loc.status.staged \/ repo0.index[f] = TreeOf(repo0, UndoNewHead)[f]

\* C8 witness: two commits undone, something staged before and after.
C8_Witness ==
    /\ UndoSucceeded /\ loc.commitCount = 2
    /\ TouchedByUndone # {} /\ GetStatus(repo0).staged # {} /\ loc.status.staged # {}

\* The sha argument names an existing commit; its parents.
RevertTargetKnown == cmd = "revert-merge" /\ IsValidSha(opts.sha) /\ ShaExists(repo0, opts.sha)
RevertTargetParents == Len(repo0.objs[opts.sha.id].parents)

\* C9: revert-merge on a commit with fewer than 2 parents fails with a ValidationError;
\* no safety tag is created and no mutating call is issued (the repository is as found).
C9_NonMergeRejected ==
    (RevertTargetKnown /\ RevertTargetParents < 2)
        => /\ calls = <<>> /\ repo = repo0
           /\ pc = "done" => outcome = "ValidationError"

\* C9 witness: a run on an existing single-parent commit has ended.
C9_Witness ==
    /\ RevertTargetKnown /\ RevertTargetParents = 1 /\ pc = "done"
    /\ "not a merge commit" \in msgs /\ ~opts.dryRun /\ opts.yes

\* The mainline text as the user means it (an empty -m counts as not given: 1).
MainlineText == OrDefault(opts.mainline, <<"1">>)
MainlineInRange ==
    /\ IsPlainInteger(MainlineText)
    /\ ParseInt(MainlineText).val >= 1 /\ ParseInt(MainlineText).val <= RevertTargetParents

\* C10 (as claimed; its no-tag, no-mutation part): with a mainline outside [1, P] or
\* not a number, revert-merge creates no safety tag and issues no mutating call.
C10_BadMainlineNeverMutates ==
    (RevertTargetKnown /\ RevertTargetParents >= 2 /\ ~MainlineInRange)
        => (repo.tags = repo0.tags /\ calls = <<>>)

\* The calls that rewrite history in undo and revert-merge.
IsHistoryMutation(c) == c.op \in {"reset --soft", "revert"}

\* C2: in undo and revert-merge every history-mutating call comes after a successful
\* tag call of the same run, the tag points at the HEAD the run found, and a failed tag
\* call is the run's last call: the run ends with the tool error, nothing else changed.
C2_TagBeforeMutation ==
    /\ \A i \in DOMAIN calls :
          IsHistoryMutation(calls[i]) =>
              /\ \E j \in 1..(i - 1) : calls[j].op = "tag" /\ calls[j].ok
              /\ [name |-> loc.tagName, target |-> HeadId(repo0)] \in repo.tags
    /\ \A j \in DOMAIN calls :
          (calls[j].op = "tag" /\ ~calls[j].ok) =>
              /\ j = Len(calls) /\ pc = "done" /\ outcome = "ExternalToolError"
              /\ repo = repo0

\* C2 witness: the tag name was taken (no outside fault) and the run stopped there.
C2_Witness ==
    /\ pc = "done" /\ ~envFault /\ outcome = "ExternalToolError"
    /\ calls = <<Call("tag", 0, FALSE)>>

\* What the pocket ref gives back: the index and working tree of the stored stash
\* commit, or the clean checkout of the stored plain commit.
PocketStored == PocketOf(repo, repo0.branch)
PocketIndex ==
    IF PocketStored.kind = "stash" THEN repo.snaps[PocketStored.id].itree
    ELSE TreeOf(repo, PocketStored.id)
PocketWorkTree ==
    IF PocketStored.kind = "stash"
    THEN [f \in Files |-> IF repo.snaps[PocketStored.id].utree[f] # 0
                          THEN repo.snaps[PocketStored.id].utree[f]
                          ELSE repo.snaps[PocketStored.id].wtree[f]]
    ELSE TreeOf(repo, PocketStored.id)
PocketCleaned == cmd = "pocket" /\ \E i \in DOMAIN calls : calls[i].op = "clean -fd" /\ calls[i].ok

\* C3 (as claimed): once pocket has run its clean step, every staged, unstaged or
\* untracked change the run removed from the index or the working tree is in the
\* commit stored at refs/pocket/<branch>.
C3_PocketHoldsRemovedChanges ==
    (PocketCleaned /\ ~envFault) =>
        /\ PocketStored.kind # "none"
        /\ \A f \in Files :
              /\ repo.wt[f] # repo0.wt[f] => PocketWorkTree[f] = repo0.wt[f]
              /\ repo.index[f] # repo0.index[f] => PocketIndex[f] = repo0.index[f]

\* The calls the safety-tag promise is about: they discard commits from the branch,
\* rewrite the tip, or delete uncommitted work.
IsDestructive(c) ==
    c.op \in {"reset --soft", "commit --amend", "reset --hard", "clean -fd", "revert"}

\* C1 (as claimed): in every workflow, a destructive call is issued only after a
\* successful safety-tag call of the same run, the tag pointing at the HEAD the run found.
C1_DestructiveCallHasSafetyTag ==
    \A i \in DOMAIN calls :
        IsDestructive(calls[i]) =>
            /\ \E j \in 1..(i - 1) : calls[j].op = "tag" /\ calls[j].ok
            /\ \E t \in repo.tags \ repo0.tags : t.target = HeadId(repo0)

\* The calls that change branches, index, working tree, stash or the remote (the
\* safety tag and the hidden pocket ref are bookkeeping, not counted here).
IsMutating(c) == c.op \notin {"tag", "update-ref"}

\* C4 (as claimed): a mutating call or a safety tag exists only in a run that got --yes
\* or a yes answer at its prompt; a declined prompt leaves no call at all.
C4_MutationOnlyAfterConsent ==
    /\ (\E i \in DOMAIN calls : IsMutating(calls[i]))
          => (opts.yes \/ (asked /\ "cancelled" \notin msgs))
    /\ (asked /\ "cancelled" \in msgs) => (calls = <<>> /\ repo = repo0)

\* C11 (as claimed): in every workflow a run that ends with a ValidationError has
\* issued no mutating git call and left the repository as it found it.
C11_ValidationErrorBeforeMutation ==
    outcome = "ValidationError" =>
        /\ \A i \in DOMAIN calls : ~IsMutating(calls[i])
        /\ repo.index = repo0.index /\ repo.wt = repo0.wt /\ repo.heads = repo0.heads

PreviewWorkflows == {"undo", "fixup", "split", "wrong-branch", "revert-merge"}

\* C12: in undo, fixup, split, wrong-branch and revert-merge a run with --dry-run
\* issues no git call that changes anything and creates no safety tag: the repository
\* stays exactly as the run found it, whatever its starting state.
C12_DryRunNeverMutates ==
    (opts.dryRun /\ cmd \in PreviewWorkflows) => (calls = <<>> /\ repo = repo0)

\* A --dry-run run of fixup that got as far as announcing its plan.
C12_Witness ==
    cmd = "fixup" /\ opts.dryRun /\ pc = "done" /\ "dry run" \in msgs
        /\ GetStatus(repo0).unstaged # {}

\* What a --dry-run run announces from the state and arguments this run started with.
PreviewOf ==
    CASE cmd = "undo" -> UndoAnnounced(UndoCount(opts).val)
      [] cmd = "fixup" -> FixupAnnounced(GetStatus(repo0))
      [] cmd = "split" -> SplitAnnounced(groupFilesByDirectory(GetStagedFiles(repo0)))
      [] cmd = "wrong-branch" -> WrongAnnounced
      [] cmd = "revert-merge" -> RevertAnnounced(RevertMainline(opts).val)
      [] OTHER -> <<>>
\* A preview that reached its announcement announced exactly PreviewOf.
PreviewAnnouncesPreviewOf ==
    (cmd \in PreviewWorkflows /\ "dry run" \in msgs) => loc.announced = PreviewOf

\* The calls of the run the preview speaks about (for split: its commits), in order.
IsPlanned(c) == cmd = "split" => c.op = "commit"
IssuedSteps ==
    LET q == SelectSeq(calls, IsPlanned) IN [k \in 1..Len(q) |-> Step(q[k].op, q[k].arg)]

\* C13 (as claimed): a confirmed real run that completes issues exactly the calls,
\* in order, that a --dry-run run announces from the same starting state and arguments
\* (for split: the same commits, one per announced group, in the same order).
C13_RealRunFollowsPreview ==
    (cmd \in PreviewWorkflows /\ ~opts.dryRun /\ pc = "done" /\ outcome = "ok"
        /\ ~envFault /\ calls # <<>>)
        => IssuedSteps = PreviewOf

\* The run ended by throwing right after a state-changing git call of its own failed.
EndedOnFailedCall ==
    pc = "done" /\ outcome # "ok" /\ calls # <<>> /\ ~calls[Len(calls)].ok

\* C14 (as claimed): in every workflow a run that ends with a validation error exits
\* with code 1 and a run that ends because a git call failed exits with code 2.
C14_ExitCodes ==
    /\ (pc = "done" /\ outcome = "ValidationError") => handleError(outcome) = 1
    /\ EndedOnFailedCall => handleError(outcome) = 2

\* The safety tags this run created.
CreatedTags == repo.tags \ repo0.tags

\* C15 (as claimed): every safety tag a workflow creates is named
\* oops/<operation>-<qualifier>-<timestamp>-<suffix> with a suffix of exactly 6 characters.
C15_TagNameHasSixCharSuffix ==
    \A t \in CreatedTags :
        /\ t.name.op \in {"undo", "revert-merge"}
        /\ t.name.suffixed
        /\ Len(t.name.suffix) = TagSuffixLen

\* The names of the safety tags earlier invocations left in the repository.
EarlierTagNames == {t.name : t \in repo0.tags}

\* C16 (as claimed): the tag name a run generates differs from every name an earlier
\* invocation generated, also one of the same second, operation and qualifier; so a
\* tag call never fails on an existing name.
C16_TagNamesDistinct ==
    /\ \A t \in CreatedTags : t.name \notin EarlierTagNames
    /\ ~envFault => \A i \in DOMAIN calls : calls[i].op = "tag" => calls[i].ok

\* A path's separators ("/" or "\") and its first segment, as the claim reads them.
HasSeparator(path) == \E i \in 1..Len(path) : path[i] \in {"/", "\\"}
FirstSegment(path) ==
    LET cut == {i \in 1..Len(path) : path[i] \in {"/", "\\"}} IN
    SubSeq(path, 1, (CHOOSE i \in cut : \A j \in cut : i <= j) - 1)
ClaimedKey(path) == IF HasSeparator(path) THEN FirstSegment(path) ELSE RootGroup
ActualKey(path) ==
    IF HasSeparator(path) /\ FirstSegment(path) # <<>> THEN FirstSegment(path) ELSE RootGroup

Grouped == cmd = "groupFilesByDirectory" /\ pc = "done"
Occurrences(q, x) == Cardinality({i \in 1..Len(q) : q[i] = x})
\* Every input path sits, as often as it was given, in exactly one group, and no
\* group holds anything else or is empty.
GroupsPartitionInput ==
    /\ \A x \in SeqToSet(opts.paths) :
          \E k \in 1..Len(loc.groups) :
              /\ Occurrences(loc.groups[k].files, x) = Occurrences(opts.paths, x)
              /\ \A j \in 1..Len(loc.groups) : j # k => Occurrences(loc.groups[j].files, x) = 0
    /\ \A k \in 1..Len(loc.groups) :
          /\ loc.groups[k].files # <<>>
          /\ SeqToSet(loc.groups[k].files) \subseteq SeqToSet(opts.paths)
    /\ \A j, k \in 1..Len(loc.groups) : j # k => loc.groups[j].directory # loc.groups[k].directory
RootGroupIsLast ==
    \A k \in 1..Len(loc.groups) : loc.groups[k].directory = RootGroup => k = Len(loc.groups)

DirSrc == <<"s", "r", "c">>
DirDocs == <<"d", "o", "c", "s">>
GroupSrc == [directory |-> DirSrc, files |-> <<PathOf(FileA), PathOf(FileSrcB)>>]
GroupDocs == [directory |-> DirDocs, files |-> <<PathOf(FileDocs)>>]
InSplitScenario == cmd = "split" /\ repo0 = SplitScenarioRepo
SplitRanToEnd == pc = "done" /\ outcome = "ok" /\ ~opts.dryRun /\ ~envFault
CommitCalls == SelectSeq(calls, LAMBDA c : c.op = "commit")
\* The scopes named by the messages of the commits made, in the order made.
CommitScopes == [k \in 1..Len(CommitCalls) |-> SplitMessageScope(loc.groups[CommitCalls[k].arg])]
\* The files a commit changes against its first parent.
ChangedBy(r, id) ==
    LET ps == r.objs[id].parents
        base == IF ps = <<>> THEN EmptyTree ELSE TreeOf(r, ps[1])
    IN  {f \in Files : TreeOf(r, id)[f] # base[f]}
\* The run left two new commits on the tip the run started from, the first changing
\* the files of group first, the second those of group second.
TwoCommitsFor(first, second) ==
    /\ Len(repo.objs) = Len(repo0.objs) + 2
    /\ HeadId(repo) = Len(repo.objs)
    /\ repo.objs[HeadId(repo)].parents = <<HeadId(repo) - 1>>
    /\ repo.objs[HeadId(repo) - 1].parents = <<HeadId(repo0)>>
    /\ {PathOf(f) : f \in ChangedBy(repo, HeadId(repo) - 1)} = SeqToSet(first.files)
    /\ {PathOf(f) : f \in ChangedBy(repo, HeadId(repo))} = SeqToSet(second.files)
    /\ CommitScopes = <<first.directory, second.directory>>
SplitScenarioYields(first, second) ==
    InSplitScenario =>
        /\ loc.groups # <<>> => loc.groups = <<first, second>>
        /\ SplitRanToEnd => loc.groups = <<first, second>> /\ TwoCommitsFor(first, second)

\* C18 as stated: for staged files src/a.js, src/b.js and docs/readme.md, split
\* makes exactly two groups, src (2 files) first and docs (1 file) second, and each
\* becomes its own commit, in that order, with a message naming its directory.
C18_SrcThenDocs == SplitScenarioYields(GroupSrc, GroupDocs)

\* C18 amended: for staged files src/a.js, src/b.js and docs/readme.md, split makes
\* exactly two groups in alphabetical order of the directory, docs (1 file) first
\* and src (2 files) second, and each becomes its own commit, in that order, with a
\* message naming its directory.
C18_DocsThenSrc == SplitScenarioYields(GroupDocs, GroupSrc)

\* The scenario run to its end: both commits made.
C18_Witness == InSplitScenario /\ SplitRanToEnd /\ loc.committed = 2 /\ Len(CommitCalls) = 2

\* ---- C19 ----
\* A wrong-branch run with no branch name, on a branch with an upstream and at least
\* one commit ahead of it, that passed the protected-branch check, was agreed to
\* and met no fault of the environment.
WrongDefaultRun ==
    /\ cmd = "wrong-branch" /\ opts.newBranch = <<>> /\ pc = "done"
    /\ HasUpstream(repo0) /\ WrongUnique(repo0) >= 1
    /\ (opts.yes \/ ~isProtectedBranch(repo0.branch))
    /\ Confirmed /\ ~envFault
WrongDefaultTarget == <<"fix", Spelled(sanitizeBranchName(repo0.objs[HeadId(repo0)].subject))>>
\* The commits of the original branch that its upstream does not have.
WrongMoved == Ancestors(repo0, HeadId(repo0)) \ Ancestors(repo0, Upstream(repo0))

\* C19: on a branch B with upstream U and k >= 1 commits ahead of U, wrong-branch
\* with no explicit name creates fix/<sanitized subject of the newest commit> at the
\* original tip, resets B to U, and ends with the new branch checked out and all k
\* commits on it.
C19_MovesCommitsToFixBranch ==
    WrongDefaultRun =>
        /\ outcome = "ok"
        /\ Tip(repo, WrongDefaultTarget) = HeadId(repo0)
        /\ Tip(repo, repo0.branch) = Upstream(repo0)
        /\ repo.branch = WrongDefaultTarget
        /\ WrongMoved \subseteq Ancestors(repo, HeadId(repo))

\* ---- C20 ----
\* Protected as the claim words it: exactly main, master, production or prod, or a
\* name beginning release/ or hotfix/.
ProtectedAsClaimed(b) ==
    \/ b \in {BranchMain, BranchMaster, BranchProduction, BranchProd}
    \/ Len(b) >= 2 /\ b[1] \in {"release", "hotfix"}
\* A wrong-branch run that has ended, started on a branch with a commit, with no
\* fault of the environment.
WrongEnded == cmd = "wrong-branch" /\ pc = "done" /\ HeadId(repo0) # 0 /\ ~envFault

C20_UnprotectedRuns ==
    /\ WrongEnded /\ repo0.branch = BranchReleaseBare /\ ~opts.yes
    /\ outcome = "ok" /\ repo.branch = BranchFix

\* ---- C21 ----
\* The reset target the claim names for a branch without upstream: local main, else
\* local master, else none (0).
FallbackTarget == IF Tip(repo0, BranchMain) # 0 THEN Tip(repo0, BranchMain)
                  ELSE Tip(repo0, BranchMaster)
\* A wrong-branch run on a branch with a commit and no upstream, past the
\* protected-branch check.
WrongNoUpstream ==
    /\ cmd = "wrong-branch" /\ HeadId(repo0) # 0 /\ ~HasUpstream(repo0)
    /\ (opts.yes \/ ~isProtectedBranch(repo0.branch))
ResetDone == \E i \in DOMAIN calls : calls[i].op = "reset --hard" /\ calls[i].ok

\* C21: wrong-branch on a branch with no upstream resets the branch to local main,
\* else to local master; with neither it ends with a ValidationError and no call.
C21_FallbackToMainOrMaster ==
    WrongNoUpstream =>
        /\ (FallbackTarget # 0 /\ ResetDone) => Tip(repo, repo0.branch) = FallbackTarget
        /\ (FallbackTarget # 0 /\ pc = "done") => outcome # "ValidationError"
        /\ (FallbackTarget = 0 /\ pc = "done" /\ ~envFault) =>
               outcome = "ValidationError" /\ calls = <<>> /\ repo = repo0

\* A branch without upstream and without main was reset to local master.
C21_Witness ==
    /\ WrongNoUpstream /\ Tip(repo0, BranchMain) = 0 /\ Tip(repo0, BranchMaster) # 0
    /\ ResetDone /\ pc = "done" /\ outcome = "ok"
\* A branch with neither upstream nor main nor master was refused.
C21_NoReference ==
    WrongNoUpstream /\ FallbackTarget = 0 /\ pc = "done" /\ outcome = "ValidationError"

\* ---- C22 ----
\* Nothing staged, nothing modified, nothing untracked.
FullyClean(r) == r.index = HeadTree(r) /\ r.wt = r.index
StagedDirs(r) ==
    {getTopLevelDirectory(PathOf(f)) : f \in {g \in Files : r.index[g] # HeadTree(r)[g]}}
\* The run started with nothing to do, in the sense of each workflow.
NothingToDo ==
    \/ cmd = "save" /\ FullyClean(repo0)
    \/ cmd = "fixup" /\ FullyClean(repo0) /\ ~opts.message
    \/ cmd = "split" /\ Cardinality(StagedDirs(repo0)) <= 1
    \/ /\ cmd = "wrong-branch" /\ HeadId(repo0) # 0 /\ HasUpstream(repo0)
       /\ Ancestors(repo0, HeadId(repo0)) \subseteq Ancestors(repo0, Upstream(repo0))
EndedAsNoOp == outcome = "ok" /\ calls = <<>> /\ repo = repo0

\* C22 as stated: a run with nothing to do ends successfully with no call that
\* changes the repository and no safety tag.
C22_NothingToDoIsNoOp == (NothingToDo /\ pc = "done" /\ ~envFault) => EndedAsNoOp

\* C22 amended: the same, for a wrong-branch run only when it passes the
\* protected-branch check (on a protected branch without --yes the run is refused
\* before the commits are counted).
C22_NothingToDoPastProtection ==
    (/\ NothingToDo /\ pc = "done" /\ ~envFault
     /\ (cmd = "wrong-branch" => (opts.yes \/ ~isProtectedBranch(repo0.branch))))
    => EndedAsNoOp

\* A fixup run on a clean tree with no message, ended.
C22_Witness ==
    /\ cmd = "fixup" /\ NothingToDo /\ pc = "done" /\ ~envFault
    /\ "nothing to do" \in msgs /\ HeadId(repo0) # 0
C22_WitnessWrong ==
    /\ cmd = "wrong-branch" /\ NothingToDo /\ pc = "done" /\ ~envFault
    /\ "nothing to do" \in msgs /\ repo0.branch = BranchDev

\* ---- C23 ----
\* A save run started right after a successful save.
SavedBefore == cmd = "save" /\ now > 1

\* C23: after a first successful save the tree is clean (nothing staged, modified
\* or untracked), and the save that follows makes no call, creates no commit and
\* leaves HEAD where it was.
C23_SecondSaveIsNoOp ==
    SavedBefore =>
        /\ FullyClean(repo0)
        /\ calls = <<>> /\ repo = repo0
        /\ (pc = "done" /\ ~envFault) => (outcome = "ok" /\ "nothing to do" \in msgs)

\* The second save ended, after a first one that committed an untracked file.
C23_Witness ==
    /\ SavedBefore /\ pc = "done" /\ "nothing to do" \in msgs
    /\ Len(repo.objs) >= 2
    /\ \E f \in Files : TreeOf(repo, HeadId(repo))[f] # 0
                          /\ TreeOf(repo, HeadId(repo) - 1)[f] = 0

\* ---- C24 ----
IsStashCall(c) == c.op \in {"stash push", "stash pop"}
PullCalls == SelectSeq(calls, LAMBDA c : c.op \in {"pull", "pull --rebase"})

\* C24: yank on a clean tree (nothing staged, modified or untracked) issues no
\* stash push and no stash pop, whatever the pull does.
C24_CleanYankNeverStashes ==
    (cmd = "yank" /\ FullyClean(repo0)) => \A i \in DOMAIN calls : ~IsStashCall(calls[i])

\* A yank on a clean tree with an upstream whose pull failed without any outside fault.
C24_Witness ==
    /\ cmd = "yank" /\ FullyClean(repo0) /\ HasUpstream(repo0) /\ pc = "done" /\ ~envFault
    /\ Len(PullCalls) = 1 /\ ~PullCalls[1].ok
\* A yank on a clean tree whose pull moved the branch forward.
C24_CleanYankPulled ==
    /\ cmd = "yank" /\ FullyClean(repo0) /\ pc = "done" /\ outcome = "ok"
    /\ HeadId(repo) # HeadId(repo0)

\* ---- C25 ----
CallsOf(op) == SelectSeq(calls, LAMBDA c : c.op = op)
\* The run stashed the local changes: its stash push succeeded and added an entry.
YankStashed ==
    /\ cmd = "yank" /\ CallsOf("stash push") # <<>> /\ CallsOf("stash push")[1].ok
    /\ loc.stashed
YankPullFailed == CallsOf("pull --rebase") # <<>> /\ ~CallsOf("pull --rebase")[1].ok
\* The stash entry the run created: the first snapshot after those of the start.
YankEntry == Len(repo0.snaps) + 1

\* C25: when the pull fails after the run stashed the local changes, no stash pop is
\* attempted, the entry the run created is still on top of the stash, the user is
\* told the stash is safe and how to restore it, and the run ends with the pull's
\* error.
C25_PullFailureKeepsStash ==
    (YankStashed /\ YankPullFailed) =>
        /\ CallsOf("stash pop") = <<>>
        /\ repo.stash # <<>> /\ Head(repo.stash) = YankEntry
        /\ pc = "done" /\ outcome = "ExternalToolError"
        /\ "stash is safe" \in msgs
        /\ handleError(outcome) # 0

\* A pull that failed by itself (diverged histories) after a stash of a dirty tree.
C25_Witness ==
    /\ YankStashed /\ YankPullFailed /\ ~envFault /\ pc = "done"
    /\ ~FullyClean(repo0) /\ FullyClean(repo)

\* ---- C26 ----
YankPulled == CallsOf("pull --rebase") # <<>> /\ CallsOf("pull --rebase")[1].ok
YankPopFailed == CallsOf("stash pop") # <<>> /\ ~CallsOf("stash pop")[1].ok

\* C26: when the pull succeeds and the stash pop fails, the run ends normally (exit
\* code 0) with the report "pull succeeded, restoration failed" and the manual
\* steps, not with the success report; the pop is issued once and the entry the run
\* created stays on top of the stash.
C26_PopFailureIsPartialSuccess ==
    (YankStashed /\ YankPulled /\ YankPopFailed) =>
        /\ pc = "done" /\ outcome = "ok" /\ handleError(outcome) = 0
        /\ "restore failed" \in msgs /\ "success" \notin msgs
        /\ Len(CallsOf("stash pop")) = 1
        /\ repo.stash # <<>> /\ Head(repo.stash) = YankEntry

\* A pop refused by git itself after a pull that moved the branch.
C26_Witness ==
    /\ YankStashed /\ YankPulled /\ YankPopFailed /\ ~envFault
    /\ HeadId(repo) # HeadId(repo0)

\* ---- C27 ----
\* A pocket run that ended, in a repository with a commit and nothing for git stash
\* create to snapshot (no staged and no unstaged change of a tracked file).
PocketNothingToSnapshot ==
    /\ cmd = "pocket" /\ HeadId(repo0) # 0 /\ NoTrackedChanges(repo0)
    /\ pc = "done" /\ ~envFault
PocketHoldsHead == PocketOf(repo, repo0.branch) = [kind |-> "commit", id |-> HeadId(repo0)]
PushRemoteMissing == opts.push # "absent" /\ PocketRemote(opts) \notin repo0.remotes

TaggedMutation == IF cmd = "undo" THEN "reset --soft" ELSE "revert"
\* A run of undo or revert-merge whose safety tag was created and whose mutating
\* call then failed.
MutationFailedAfterTag ==
    /\ cmd \in {"undo", "revert-merge"} /\ pc = "done"
    /\ CallsOf("tag") # <<>> /\ CallsOf("tag")[1].ok
    /\ CallsOf(TaggedMutation) # <<>> /\ ~CallsOf(TaggedMutation)[1].ok

\* C28: when the mutating call fails after the safety tag was created, the failure
\* report names the tag as the rollback handle, the run ends with the error of the
\* call, and the mutating call was issued once and is the last call of the run.
C28_FailureNamesTheTag ==
    MutationFailedAfterTag =>
        /\ "safety tag named" \in msgs
        /\ outcome = "ExternalToolError"
        /\ Len(CallsOf(TaggedMutation)) = 1
        /\ calls[Len(calls)].op = TaggedMutation

\* An undo of one commit on a one-commit branch: the tag is created, the reset to
\* HEAD~1 fails, and the report of the failure does not name the tag.
C28_UndoFailureSilentOnTag ==
    /\ MutationFailedAfterTag /\ cmd = "undo" /\ ~envFault
    /\ "safety tag named" \notin msgs /\ outcome = "ExternalToolError"

\* ---- C29 ----
\* The files the index holds unmerged.
UnmergedFiles(r) == {f \in Files : r.index[f] = Unmerged}
\* A revert-merge run whose revert call stopped on conflicts.
RevertStoppedOnConflicts ==
    /\ cmd = "revert-merge" /\ pc = "done" /\ ~envFault
    /\ CallsOf("revert") # <<>> /\ ~CallsOf("revert")[1].ok
    /\ UnmergedFiles(repo) # {}

\* C29: when the revert call fails because of conflicts, the run reports the
\* conflicted files with the instructions to resolve them by hand, and the failed
\* revert is the last call of the run.
C29_ConflictsReported ==
    RevertStoppedOnConflicts =>
        /\ "conflicts reported" \in msgs
        /\ loc.conflicted = UnmergedFiles(repo)
        /\ calls[Len(calls)].op = "revert" /\ Len(CallsOf("revert")) = 1

\* The part of C29 that the code keeps: a revert that stopped on conflicts is the
\* last call of the run, which ends with its error and leaves the index unmerged.
C29_NoCallAfterConflict ==
    RevertStoppedOnConflicts =>
        /\ calls[Len(calls)].op = "revert" /\ Len(CallsOf("revert")) = 1
        /\ outcome = "ExternalToolError"

\* ---- C30 ----
\* A run of undo or fixup on a branch that has no upstream.
NoUpstreamRun == cmd \in {"undo", "fixup"} /\ ~HasUpstream(repo0) /\ ~envFault
\* The prompts and report lines worded for commits that may be pushed, and those
\* worded for commits known to be local.
PushedWording ==
    {"prompt: some commits may be pushed", "prompt: commit is pushed",
     "force-push note", "force-push required"}
LocalWording ==
    {"prompt: undo, changes preserved", "prompt: fixup the last commit", "push when ready"}
Prompted == \E m \in msgs : m \in {UndoPrompt(l) : l \in {[hasUnpushed |-> b] : b \in BOOLEAN}}
                                  \cup {FixupPrompt(l) : l \in {[isPushed |-> b] : b \in BOOLEAN}}

\* C30: without an upstream, the confirmation prompt and the final report of undo
\* and fixup use the may-be-pushed and force-push wording, never the wording for
\* commits known to be local.
C30_NoUpstreamWarnsConservatively ==
    NoUpstreamRun =>
        /\ msgs \cap LocalWording = {}
        /\ Prompted => msgs \cap PushedWording # {}
        /\ (pc = "done" /\ "success" \in msgs) => msgs \cap PushedWording # {}

\* The undo half of C30, which the code keeps: without an upstream the prompt of
\* undo says that commits may be pushed and its report carries the force-push note.
C30_UndoWarnsConservatively ==
    (NoUpstreamRun /\ cmd = "undo") =>
        /\ msgs \cap LocalWording = {}
        /\ Prompted => "prompt: some commits may be pushed" \in msgs
        /\ (pc = "done" /\ "success" \in msgs) => "force-push note" \in msgs

\* An undo without an upstream that was agreed to at the prompt and succeeded.
C30_UndoWitness ==
    /\ NoUpstreamRun /\ cmd = "undo" /\ asked /\ pc = "done" /\ "success" \in msgs
    /\ "prompt: some commits may be pushed" \in msgs /\ "force-push note" \in msgs

\* ---- C31 ----
\* The calls of the run that failed.
FailedCalls == {i \in DOMAIN calls : ~calls[i].ok}
\* The run stopped at call i: it is the last call and the run ended with an error
\* (the one of the call, or the plain Error yank wraps a failed pull in).
StoppedAt(i) == i = Len(calls) /\ pc = "done" /\ outcome \in {"ExternalToolError", "Error"}

\* C31: a failed git call of a workflow is logged and re-raised, so it is the last
\* call of the run and the run ends with its error, never as a success.
C31_FailedCallEndsRun ==
    \A i \in FailedCalls : StoppedAt(i) /\ "operation failed" \in msgs

\* What the code keeps of C31: every failed call stops the run with its error,
\* except the push of pocket and the stash pop of yank, whose failure is logged
\* and followed by a normal end of the run.
C31_OnlyPushAndPopTolerated ==
    \A i \in FailedCalls :
        IF calls[i].op \in {"push", "stash pop"}
        THEN i = Len(calls) /\ pc = "done" /\ outcome = "ok"
        ELSE StoppedAt(i) /\ "operation failed" \in msgs

\* ---- C32 ----
\* A split run that found at least two groups and is not a preview.
SplitLoopRun == cmd = "split" /\ Len(loc.groups) >= 2 /\ ~opts.dryRun
FilesOfGroup(k) == {FileAt(p) : p \in SeqToSet(loc.groups[k].files)}
\* The commits the run made, as commit ids, and the calls that made them.
MadeCommits == SelectSeq(calls, LAMBDA c : c.op = "commit" /\ c.ok)
MadeId(j) == Len(repo0.objs) + j
StagedNow(r) == {f \in Files : r.index[f] # HeadTree(r)[f]}
\* The number of commits made by the run that change file f.
CommitsWith(f) == Cardinality({j \in DOMAIN MadeCommits : f \in ChangedBy(repo, MadeId(j))})
SplitSucceeded == pc = "done" /\ outcome = "ok" /\ "success" \in msgs
\* Groups are taken in plan order, each at most once; when a commit is about to be
\* made only files of the current group are staged; every commit made changes
\* files of its group only.
SplitGroupByGroup ==
    /\ Len(repo.objs) = Len(repo0.objs) + Len(MadeCommits)
    /\ \A j, k \in DOMAIN MadeCommits : j < k => MadeCommits[j].arg < MadeCommits[k].arg
    /\ \A j, k \in DOMAIN CallsOf("add") : j < k => CallsOf("add")[j].arg < CallsOf("add")[k].arg
    /\ pc = "split_commit" => StagedNow(repo) # {} /\ StagedNow(repo) \subseteq FilesOfGroup(loc.gi)
    /\ \A j \in DOMAIN MadeCommits :
          /\ ChangedBy(repo, MadeId(j)) # {}
          /\ ChangedBy(repo, MadeId(j)) \subseteq FilesOfGroup(MadeCommits[j].arg)

\* C32 as stated: groups are processed in plan order, one commit at most per
\* group, each commit holding files of its group only, and after a successful run
\* each originally staged file is in exactly one of the new commits.
C32_EachStagedFileCommittedOnce ==
    SplitLoopRun =>
        /\ SplitGroupByGroup
        /\ SplitSucceeded => \A f \in StagedNow(repo0) : CommitsWith(f) = 1

\* What the code keeps of C32: groups are processed in plan order, one commit at
\* most per group, each commit holding files of its group only; after a successful
\* run an originally staged file is in exactly one of the new commits when its copy
\* in the working tree differs from HEAD, and in none when it equals HEAD (its
\* group is then skipped or committed without it).
C32_EachChangedFileCommittedOnce ==
    SplitLoopRun =>
        /\ SplitGroupByGroup
        /\ SplitSucceeded =>
              \A f \in StagedNow(repo0) :
                 CommitsWith(f) = IF repo0.wt[f] # HeadTree(repo0)[f] THEN 1 ELSE 0

\* A successful split of two groups that made a commit for each.
C32_Witness ==
    /\ SplitLoopRun /\ SplitSucceeded /\ Len(MadeCommits) = 2
    /\ \A f \in StagedNow(repo0) : CommitsWith(f) = 1
\* A successful split that skipped a group whose file equals HEAD in the working
\* tree and made a commit for the other group.
C32_WitnessSkipped ==
    /\ SplitLoopRun /\ SplitSucceeded /\ Len(MadeCommits) = 1
    /\ \E f \in StagedNow(repo0) : CommitsWith(f) = 0

\* ---- C33 ----
\* The staged-file list names every path once.
DistinctPaths(q) == \A i, j \in 1..Len(q) : q[i] = q[j] => i = j
\* The lists that hold the paths of q in another order.
Reordered(q) ==
    {[i \in 1..Len(q) |-> q[p[i]]] :
        p \in {f \in [1..Len(q) -> 1..Len(q)] : \A i, j \in 1..Len(q) : f[i] = f[j] => i = j}}
GroupKeysAscending ==
    \A j, k \in 1..Len(loc.groups) :
        (j < k /\ loc.groups[k].directory # RootGroup)
            => Before(LocaleOrder, loc.groups[j].directory, loc.groups[k].directory)
GroupFilesAscending ==
    \A k \in 1..Len(loc.groups) :
        \A i, j \in 1..Len(loc.groups[k].files) :
            i < j => Before(CodeUnitOrder, loc.groups[k].files[i], loc.groups[k].files[j])

\* C33: groupFilesByDirectory emits the groups in ascending order of the directory
\* key with the root group last, each group's files in ascending order, and gives
\* the same result for every ordering of the same paths.
C33_GroupingIgnoresInputOrder ==
    (Grouped /\ DistinctPaths(opts.paths)) =>
        /\ GroupKeysAscending /\ RootGroupIsLast
        /\ GroupFilesAscending
        /\ \A q \in Reordered(opts.paths) : groupFilesByDirectory(q) = loc.groups

\* A grouping of paths given out of order: the root file before a directory, and
\* the two files of a directory in descending order.
C33_Witness ==
    /\ Grouped /\ DistinctPaths(opts.paths)
    /\ opts.paths = <<<<"n">>, <<"s", "/", "n">>, <<"s", "/", "a">>>>
    /\ Len(loc.groups) = 2 /\ loc.groups[2].directory = RootGroup
    /\ loc.groups[1].files = <<<<"s", "/", "a">>, <<"s", "/", "n">>>>

\* ---- C34 ----
\* The positions of the pulls of a yank run, with or without rebase.
YankPullAt == {i \in DOMAIN calls : calls[i].op \in {"pull", "pull --rebase"}}
\* The tree was dirty when the run started: staged, unstaged or untracked changes.
YankStartedDirty == YankDirty(GetStatus(repo0))
StashedBefore(i) == \E j \in 1..(i - 1) : calls[j].op = "stash push" /\ calls[j].ok

\* C34: every pull of yank is a pull with rebase, and when the tree was dirty a
\* stash push was issued and completed before the pull.
C34_StashBeforeRebasePull ==
    cmd = "yank" =>
        \A i \in YankPullAt :
            /\ calls[i].op = "pull --rebase"
            /\ YankStartedDirty => StashedBefore(i)

\* What the code keeps of C34: on a branch with an upstream every pull is a pull
\* with rebase, preceded by a completed stash push when the tree was dirty.
C34_WithUpstream ==
    (cmd = "yank" /\ HasUpstream(repo0)) =>
        \A i \in YankPullAt :
            /\ calls[i].op = "pull --rebase"
            /\ YankStartedDirty => StashedBefore(i)

\* A yank of a dirty tree on a branch without an upstream: a plain pull is issued
\* with no stash push before it.
C34_PlainPullOfDirtyTree ==
    /\ cmd = "yank" /\ ~HasUpstream(repo0) /\ YankStartedDirty /\ ~envFault
    /\ Len(calls) = 1 /\ calls[1].op = "pull"

(***************************************************************************)
(* split, call by call: each git call starts and ends in steps of its own  *)
(***************************************************************************)
\* The git calls of the loop that change the repository; the status calls do not.
IsWriteCall(op) == op \in {"reset HEAD", "add", "commit"}
\* git.ts 30-34: the two status calls that Promise.all starts together.
StatusCalls == {"status --porcelain", "status --branch --porcelain"}

\* split.ts 84: await git.unstageAll(). An awaited call is in flight from its start
\* to its end, and the workflow waits for the end.
unstageAllStarts ==
    /\ pc = "split_unstage"
    /\ pc' = "split_unstage_wait"
    /\ loc' = [loc EXCEPT !.inFlight = @ \cup {"reset HEAD"}]
    /\ UNCHANGED <<repo, cmd, opts, outcome, calls, msgs, asked, now, repo0, envFault>>
unstageAllEnds ==
    /\ pc = "split_unstage_wait"
    /\ \E fault \in Faults :
         LET res == Exec(GitUnstageAll(repo), fault) IN
         /\ envFault' = (envFault \/ fault)
         /\ calls' = Append(calls, Call("reset HEAD", 0, res.ok))
         /\ repo' = res.repo
         /\ loc' = [loc EXCEPT !.inFlight = @ \ {"reset HEAD"}]
         /\ IF res.ok THEN pc' = "split_stage" /\ UNCHANGED <<outcome, msgs>>
            ELSE Finish("ExternalToolError", {})
    /\ UNCHANGED <<cmd, opts, asked, now, repo0>>

\* The stage call left unawaited: the workflow goes on to the status at once.
stageStartsUnawaited ==
    /\ pc = "split_stage"
    /\ pc' = "split_status"
    /\ loc' = [loc EXCEPT !.inFlight = @ \cup {"add"}]
    /\ UNCHANGED <<repo, cmd, opts, outcome, calls, msgs, asked, now, repo0, envFault>>
\* split.ts 87: await git.stage(group.files)
stageStarts ==
    /\ pc = "split_stage"
    /\ pc' = "split_stage_wait"
    /\ loc' = [loc EXCEPT !.inFlight = @ \cup {"add"}]
    /\ UNCHANGED <<repo, cmd, opts, outcome, calls, msgs, asked, now, repo0, envFault>>
stageEnds ==
    /\ "add" \in loc.inFlight
    /\ \E fault \in Faults :
         LET res == Exec(GitAdd(repo, {FileAt(p) : p \in SeqToSet(loc.groups[loc.gi].files)}), fault) IN
         /\ envFault' = (envFault \/ fault)
         /\ calls' = Append(calls, Call("add", loc.gi, res.ok))
         /\ repo' = res.repo
         /\ loc' = [loc EXCEPT !.inFlight = @ \ {"add"}]
         /\ IF pc # "split_stage_wait" THEN UNCHANGED <<pc, outcome, msgs>>
            ELSE IF res.ok THEN pc' = "split_status" /\ UNCHANGED <<outcome, msgs>>
            ELSE Finish("ExternalToolError", {})
    /\ UNCHANGED <<cmd, opts, asked, now, repo0>>

\* split.ts 90 and git.ts 31-34: getStatus starts both status calls at once.
getStatusStarts ==
    /\ pc = "split_status"
    /\ pc' = "split_status_wait"
    /\ loc' = [loc EXCEPT !.inFlight = @ \cup StatusCalls]
    /\ UNCHANGED <<repo, cmd, opts, outcome, calls, msgs, asked, now, repo0, envFault>>

\* One of the status calls ends. Promise.all resolves when both have ended and
\* rejects as soon as one fails, the other being still in flight; the workflow
\* then ends with the error, and the call left over ends after it.
getStatusEnds ==
    /\ pc \in {"split_status_wait", "done"}
    /\ \E op \in loc.inFlight \cap StatusCalls, fault \in Faults :
         LET left == loc.inFlight \ {op}
             l == [loc EXCEPT !.inFlight = left]
         IN  /\ envFault' = (envFault \/ fault)
             /\ IF pc = "done" THEN loc' = l /\ UNCHANGED <<pc, outcome, msgs>>
                ELSE IF fault THEN Finish("ExternalToolError", {}) /\ loc' = l
                ELSE IF left \cap StatusCalls # {} THEN loc' = l /\ UNCHANGED <<pc, outcome, msgs>>
                ELSE IF GetStatus(repo).staged = {} THEN SplitAdvance(l)
                ELSE pc' = "split_commit" /\ loc' = l /\ UNCHANGED <<outcome, msgs>>
    /\ UNCHANGED <<repo, cmd, opts, calls, asked, now, repo0>>

\* split.ts 104: await git.commit(message)
commitStarts ==
    /\ pc = "split_commit"
    /\ pc' = "split_commit_wait"
    /\ loc' = [loc EXCEPT !.inFlight = @ \cup {"commit"}]
    /\ UNCHANGED <<repo, cmd, opts, outcome, calls, msgs, asked, now, repo0, envFault>>
commitEnds ==
    /\ pc = "split_commit_wait"
    /\ \E fault \in Faults :
         LET res == Exec(GitCommit(repo), fault)
             l == [loc EXCEPT !.inFlight = @ \ {"commit"}]
         IN  /\ envFault' = (envFault \/ fault)
             /\ calls' = Append(calls, Call("commit", loc.gi, res.ok))
             /\ repo' = res.repo
             /\ IF ~res.ok THEN Finish("ExternalToolError", {}) /\ loc' = l
                ELSE SplitAdvance([l EXCEPT !.committed = @ + 1])
    /\ UNCHANGED <<cmd, opts, asked, now, repo0>>

CallsNext ==
    \/ SplitStart
    \/ unstageAllStarts \/ unstageAllEnds
    \/ stageStarts \/ stageEnds
    \/ getStatusStarts \/ getStatusEnds
    \/ commitStarts \/ commitEnds
SpecCalls == InitSplit /\ [][CallsNext]_vars

\* ---- C35 ----
\* C35: two git calls are in flight together only when both are read-only: a
\* mutating call in flight is the only call in flight.
C35_MutatingCallsRunAlone ==
    \A op \in loc.inFlight : IsWriteCall(op) => loc.inFlight = {op}

\* Both status calls of getStatus are in flight, after an add that has ended.
C35_Witness ==
    /\ cmd = "split" /\ loc.inFlight = StatusCalls
    /\ calls # <<>> /\ calls[Len(calls)].op = "add" /\ calls[Len(calls)].ok
\* A commit is in flight, alone, after both status calls have ended.
C35_WitnessCommit ==
    /\ cmd = "split" /\ loc.inFlight = {"commit"} /\ pc = "split_commit_wait"

\* ---- C36 ----
\* The uncommitted change of file f at the start of the run is still there: what
\* was staged is in the index or the working tree, and what the working tree held
\* beyond the index (an unstaged edit or an untracked file) is in the working tree.
UncommittedKept(f) ==
    /\ repo0.index[f] # HeadTree(repo0)[f]
          => (repo.index[f] = repo0.index[f] \/ repo.wt[f] = repo0.index[f])
    /\ repo0.wt[f] # repo0.index[f] => repo.wt[f] = repo0.wt[f]
WrongStartedDirty == \E f \in Files : LocallyChanged(repo0, f)

\* C36: wrong-branch never discards uncommitted work: at every step of the run
\* and after it, whether it succeeded or failed, every uncommitted change of the
\* start is still in the working tree or the index.
C36_UncommittedWorkKept ==
    (cmd = "wrong-branch" /\ HeadId(repo0) # 0) => \A f \in Files : UncommittedKept(f)

\* What the code keeps of C36: until the hard reset has run, nothing uncommitted
\* is lost, whatever step fails.
C36_KeptUntilReset ==
    (cmd = "wrong-branch" /\ HeadId(repo0) # 0
       /\ ~\E i \in DOMAIN calls : calls[i].op = "reset --hard" /\ calls[i].ok)
        => \A f \in Files : UncommittedKept(f)

\* A run on a dirty tree whose hard reset succeeded without a fault.
C36_ResetOfDirtyTree ==
    /\ cmd = "wrong-branch" /\ WrongStartedDirty /\ ~envFault
    /\ \E i \in DOMAIN calls : calls[i].op = "reset --hard" /\ calls[i].ok
    /\ \E f \in Files : ~UncommittedKept(f)

\* ---- C37 ----
\* The branches of the repository, and the commits one of them (or the commit that
\* is checked out) leads to.
BranchRefs(r) == DOMAIN r.heads \ {BranchDetached}
Held(r) ==
    Ancestors(r, HeadId(r)) \cup UNION {Ancestors(r, Tip(r, b)) : b \in BranchRefs(r)}
ResetIssued == \E i \in DOMAIN calls : calls[i].op = "reset --hard"
WrongRunning == cmd = "wrong-branch" /\ HeadId(repo0) # 0

\* C37: the hard reset is issued only after the new branch was created at the
\* original tip, with the original branch checked out and never the new one; and
\* in every state of the run, also after a failed step, the original tip and the
\* commits being moved are reachable from a branch (or from the checked-out commit).
C37_ResetOnlyTheOriginalBranch ==
    WrongRunning =>
        /\ (pc = "wrong_reset" \/ ResetIssued) =>
              /\ CallsOf("checkout -b") # <<>> /\ CallsOf("checkout -b")[1].ok
              /\ Tip(repo, loc.target) = HeadId(repo0)
        /\ pc = "wrong_reset" => repo.branch = repo0.branch /\ repo.branch # loc.target
        /\ Ancestors(repo0, HeadId(repo0)) \subseteq Held(repo)

\* What the code keeps of C37: when the run starts on a branch, the claim holds.
C37_OnABranch ==
    (WrongRunning /\ repo0.branch # BranchDetached) =>
        /\ (pc = "wrong_reset" \/ ResetIssued) =>
              /\ CallsOf("checkout -b") # <<>> /\ CallsOf("checkout -b")[1].ok
              /\ Tip(repo, loc.target) = HeadId(repo0)
        /\ pc = "wrong_reset" => repo.branch = repo0.branch /\ repo.branch # loc.target
        /\ Ancestors(repo0, HeadId(repo0)) \subseteq Held(repo)

\* A run started with no branch checked out that ended as a success with the
\* commits it was to move on no branch.
C37_DetachedRunLosesCommits ==
    /\ WrongRunning /\ repo0.branch = BranchDetached /\ ~envFault
    /\ pc = "done" /\ "success" \in msgs
    /\ HeadId(repo0) \notin Held(repo)
\* A run started on a branch whose hard reset succeeded.
C37_ResetOnABranch ==
    /\ WrongRunning /\ repo0.branch # BranchDetached /\ ~envFault
    /\ pc = "done" /\ "success" \in msgs /\ ResetIssued
    /\ Tip(repo, repo0.branch) # HeadId(repo0)

\* ---- C38 ----
\* The positions of the stash pops of the run.
YankPopAt == {i \in DOMAIN calls : calls[i].op = "stash pop"}
\* Before call i the run pushed a stash entry of its own and then pulled with success.
PushedThenPulledBefore(i) ==
    \E j, k \in 1..(i - 1) :
        /\ j < k
        /\ calls[j].op = "stash push" /\ calls[j].ok
        /\ calls[k].op = "pull --rebase" /\ calls[k].ok
\* The stash entries of the start are all still there, below whatever the run added.
PriorStashKept ==
    /\ Len(repo.stash) >= Len(repo0.stash)
    /\ SubSeq(repo.stash, Len(repo.stash) - Len(repo0.stash) + 1, Len(repo.stash)) = repo0.stash

\* C38: yank pops the stash at most once, only after a stash push of its own that
\* created an entry and a pull that succeeded, and never pops an entry that was
\* there before the run.
C38_PopsOnlyItsOwnStash ==
    cmd = "yank" =>
        /\ Cardinality(YankPopAt) <= 1
        /\ \A i \in YankPopAt :
              /\ PushedThenPulledBefore(i)
              /\ loc.stashed /\ Len(repo.snaps) = Len(repo0.snaps) + 1
        /\ PriorStashKept

\* A run in a repository with an older stash entry that stashed, pulled and popped
\* its own entry: the older entry is the only one left.
C38_Witness ==
    /\ cmd = "yank" /\ repo0.stash # <<>> /\ ~envFault
    /\ pc = "done" /\ "success" \in msgs
    /\ YankPopAt # {} /\ repo.stash = repo0.stash

\* ---- C39 ----
\* update-ref of the pocket ref has succeeded before call i.
PocketRefStoredBefore(i) == \E j \in 1..(i - 1) : calls[j].op = "update-ref" /\ calls[j].ok
PocketRefStored == \E j \in DOMAIN calls : calls[j].op = "update-ref" /\ calls[j].ok

\* C39: pocket issues reset --hard and clean -fd only after update-ref of the
\* pocket ref of the branch has succeeded; as long as it has not, the working tree
\* and the index are as the run found them; and the pocket refs of other branches
\* are never changed.
C39_CleansOnlyAfterRefStored ==
    cmd = "pocket" =>
        /\ \A i \in DOMAIN calls :
              calls[i].op \in {"reset --hard", "clean -fd"} => PocketRefStoredBefore(i)
        /\ ~PocketRefStored => repo.wt = repo0.wt /\ repo.index = repo0.index
        /\ \A b \in (DOMAIN repo.pocket \cup DOMAIN repo0.pocket) \ {repo0.branch} :
              PocketOf(repo, b) = PocketOf(repo0, b)

\* A run on a dirty tree whose update-ref failed: it ended with the error, the tree
\* and index untouched.
C39_Witness ==
    /\ cmd = "pocket" /\ pc = "done" /\ outcome = "ExternalToolError"
    /\ calls # <<>> /\ calls[1].op = "update-ref" /\ ~calls[1].ok
    /\ ~CleanTree(repo0) /\ repo.wt = repo0.wt /\ repo.index = repo0.index
\* A run in a repository holding a pocket ref of branch dev that stored its own ref
\* and cleaned the tree: the ref of dev is as it was.
C39_WitnessOtherRef ==
    /\ cmd = "pocket" /\ pc = "done" /\ outcome = "ok" /\ ~CleanTree(repo0)
    /\ PocketOf(repo0, BranchDev) # NoPocket /\ PocketOf(repo, BranchDev) = PocketOf(repo0, BranchDev)
    /\ PocketOf(repo, repo0.branch) # PocketOf(repo0, repo0.branch)
    /\ Len(calls) = 3

\* ---- C40 ----
\* File f was untracked when the run inspected the status: not in HEAD, not in the
\* index, present in the working tree.
UntrackedAtInspection(f) ==
    HeadTree(repo0)[f] = 0 /\ repo0.index[f] = 0 /\ repo0.wt[f] # 0
OnlyUntrackedPending ==
    /\ \E f \in Files : UntrackedAtInspection(f)
    /\ \A f \in Files : LocallyChanged(repo0, f) => UntrackedAtInspection(f)
FixupAmended ==
    cmd = "fixup" /\ calls # <<>> /\ calls[Len(calls)].op = "commit --amend" /\ calls[Len(calls)].ok

\* C40: fixup never adds a file that was untracked at inspection to the amended
\* commit, and a run whose only pending entries are untracked files, without a
\* replacement message, issues no git command that writes.
C40_UntrackedNeverAmended ==
    cmd = "fixup" =>
        /\ FixupAmended => \A f \in Files : UntrackedAtInspection(f) => HeadTree(repo)[f] = 0
        /\ OnlyUntrackedPending /\ ~opts.message => calls = <<>>

\* What the code keeps: the amended commit differs from the old one only in files
\* that had a status line at inspection, untracked ones included.
C40_OnlyPendingFilesAmended ==
    FixupAmended => \A f \in Files : ~LocallyChanged(repo0, f) => HeadTree(repo)[f] = HeadTree(repo0)[f]

\* An amended commit that holds a file which was untracked at inspection, in a run
\* with nothing else pending and no replacement message.
C40_UntrackedAmended ==
    /\ FixupAmended /\ pc = "done" /\ outcome = "ok" /\ ~opts.message /\ OnlyUntrackedPending
    /\ \E f \in Files : UntrackedAtInspection(f) /\ HeadTree(repo)[f] # 0

====
